---- MODULE Spec2Model ----
(***************************************************************************)
(* A model of the symbolic circuit solver of Modules/circuit.py: the      *)
(* component registry filled by the add operations, and solve() as the    *)
(* sequence of its passes over the equation list and the unknown set.     *)
(*                                                                         *)
(* sympy expressions are modelled by their value as Laurent polynomials   *)
(* with integer coefficients over the symbols (sympy evaluates sums and   *)
(* products automatically, so an expression that is 0 is the literal 0).  *)
(***************************************************************************)
EXTENDS Integers, Sequences, FiniteSets, TLC

\* ------------------------------------------------------------------ bounds
MaxComps == 2
MaxNode == 2

Nodes == 0 .. MaxNode

\* The caller's value argument: None, or a number.  A number is the pair
\* << n, d >> of the numerator and the denominator of its value (the int 2
\* is << 2, 1 >>, the float 0.001 is << 1, 1000 >>); the numbers the callers
\* give are not 0.
None == << >>
Some(x) == << x >>
Num(n, d) == << n, d >>
Values == { None, Some(Num(2, 1)) }
\* The values the callers of this model give a component of kind k: the
\* value handling is the same code in every add operation, and the resistors
\* exercise both of its branches.
ValuesOf(k) == IF k = "r" THEN Values ELSE { None }

\* The caller names the i-th component it adds "X"+str(i): names are unique
\* within the circuit (the contract of the add operations).
CompName(i) == "X" \o ToString(i)
AllNames == { CompName(i) : i \in 1 .. (MaxComps + 1) }

\* --------------------------------------------------------------- symbols
\* sympy.Symbol(name): two symbols are the same symbol iff they have the
\* same name.
Symbol(nm) == << nm >>
\* s = sympy.Symbol('s')
s == Symbol("s")

\* ------------------------------------------------------------ monomials
\* A monomial maps each symbol occurring in it to its (nonzero) exponent.
MOne == [x \in {} |-> 0]
MSym(sy) == [x \in {sy} |-> 1]
MExp(m, x) == IF x \in DOMAIN m THEN m[x] ELSE 0
MMul(a, b) ==
  LET e(x) == MExp(a, x) + MExp(b, x)
      d == { x \in (DOMAIN a) \cup (DOMAIN b) : e(x) # 0 }
  IN [x \in d |-> e(x)]
MInv(a) == [x \in DOMAIN a |-> 0 - a[x]]
MDrop(m, y) == [x \in (DOMAIN m) \ {y} |-> m[x]]

\* ---------------------------------------------------------- polynomials
\* A polynomial maps each of its monomials to its (nonzero) coefficient.
PZero == [m \in {} |-> 0]
PCoef(p, m) == IF m \in DOMAIN p THEN p[m] ELSE 0
PTerm(c, m) == IF c = 0 THEN PZero ELSE [x \in {m} |-> c]
PSym(sy) == PTerm(1, MSym(sy))
PAdd(p, q) ==
  LET c(m) == PCoef(p, m) + PCoef(q, m)
      d == { m \in (DOMAIN p) \cup (DOMAIN q) : c(m) # 0 }
  IN [m \in d |-> c(m)]
PNeg(p) == [m \in DOMAIN p |-> 0 - p[m]]
PSub(p, q) == PAdd(p, PNeg(q))
\* p * (c * m)
PScale(p, c, m) ==
  IF c = 0 THEN PZero
  ELSE LET d == { MMul(k, m) : k \in DOMAIN p }
       IN [k2 \in d |-> c * p[MMul(k2, MInv(m))]]
RECURSIVE PMulR(_, _, _)
PMulR(p, q, todo) ==
  IF todo = {} THEN PZero
  ELSE LET m == CHOOSE m \in todo : TRUE
       IN PAdd(PScale(p, q[m], m), PMulR(p, q, todo \ {m}))
PMul(p, q) == PMulR(p, q, DOMAIN q)
\* The symbols occurring in p
PSymbols(p) == UNION { DOMAIN m : m \in DOMAIN p }
\* The symbol that the one-symbol expression x is
SymOf(x) == CHOOSE sy \in PSymbols(x) : TRUE
MPow(m, e) == [x \in DOMAIN m |-> e * m[x]]
RECURSIVE IPow(_, _)
\* c**e; a negative exponent occurs for the coefficients 1 and -1 only
IPow(c, e) == IF e = 0 THEN 1 ELSE IF e < 0 THEN IPow(c, 0 - e) ELSE c * IPow(c, e - 1)

\* The term cf*m with the symbol x replaced by the one-term expression
\* nc*nm (the passes replace a symbol by 0, by a symbol or its negative, or
\* by a product of two symbols, and never one that occurs in a denominator)
TermSubs(cf, m, x, nc, nm) ==
  IF x \notin DOMAIN m THEN PTerm(cf, m)
  ELSE IF nc = 0 THEN PZero
  ELSE PTerm(cf * IPow(nc, m[x]), MMul(MDrop(m, x), MPow(nm, m[x])))
RECURSIVE PSubsR(_, _, _, _, _)
PSubsR(p, x, nc, nm, todo) ==
  IF todo = {} THEN PZero
  ELSE LET m == CHOOSE m \in todo : TRUE
       IN PAdd(TermSubs(p[m], m, x, nc, nm), PSubsR(p, x, nc, nm, todo \ {m}))
\* The coefficient and the monomial of a one-term expression (0: coefficient 0)
LeadMono(new) == IF new = PZero THEN MOne ELSE CHOOSE m \in DOMAIN new : TRUE
LeadCoef(new) == IF new = PZero THEN 0 ELSE new[LeadMono(new)]
\* expr.subs(Symbol x, new): every occurrence of x replaced by new
PSubsSym(p, x, new) ==
  IF x \in PSymbols(p) THEN PSubsR(p, x, LeadCoef(new), LeadMono(new), DOMAIN p) ELSE p
\* expr.subs(old, new) where old is what the node-variable map or a
\* component holds: a symbol, or the integer 0 (which matches only a
\* literal 0).
ExprSubs(p, old, new) ==
  IF old = PZero THEN (IF p = PZero THEN new ELSE p)
  ELSE PSubsSym(p, SymOf(old), new)

\* ------------------------------------------------------------- equations
\* A KCL row is a bare expression (implicitly = 0); the source and probe
\* rows are sympy.Eq(lhs, rhs), which evaluates to True when both sides are
\* the same expression.  s holds the expression, or the two sides.
Expr(p) == [t |-> "Expr", s |-> << p >>]
Eq(l, r) == IF l = r THEN [t |-> "True", s |-> << >>] ELSE [t |-> "Eq", s |-> << l, r >>]
\* Evaluation of a relation whose sides were rewritten
Evaluated(q) == IF q.t = "Eq" /\ q.s[1] = q.s[2] THEN [t |-> "True", s |-> << >>] ELSE q
\* eq.subs(old, new)
EqSubs(q, old, new) ==
  Evaluated([t |-> q.t, s |-> [i \in DOMAIN q.s |-> ExprSubs(q.s[i], old, new)]])
\* The polynomial the solver sets to zero for an equation
EqPoly(q) ==
  CASE q.t = "Expr" -> q.s[1]
    [] q.t = "Eq" -> PSub(q.s[1], q.s[2])
    [] OTHER -> PZero
\* The symbols occurring in an equation
EqSymbols(q) == UNION { PSymbols(q.s[i]) : i \in DOMAIN q.s }

\* dict[key] = value
Put(f, key, val) == [x \in (DOMAIN f) \cup {key} |-> IF x = key THEN val ELSE f[x]]
EmptyDict == [x \in {} |-> 0]

\* ----------------------------------------------------------------- state
VARIABLES
  components,  \* self.components: list of component dictionaries
  subsDic,     \* self.subsDic: symbol -> value
  meas,        \* self.meas: probe name -> probe dictionary
  sSolution,   \* self.sSolution: None or what sympy.solve returned
  solution,    \* self.solution: None or name -> expression
  particular,  \* self.particular: None or name -> expression
  name,        \* self.name: symbol -> name
  symbol,      \* self.symbol: name -> symbol
  equations,   \* self.equations (set by solve)
  unknowns,    \* self.unknowns (set by solve)
  nodeList,    \* self.nodeList (set by _numNodes)
  nodeVars,    \* self.nodeVars (set by _nodeVariables)
  pc,          \* "idle", or the method solve() is about to call
  result,      \* outcome of the last completed call
  elim,        \* history: the symbols unknowns.remove() took out in this solve
  subsLog,     \* history: the substitutions _substEqs made in this solve
  prev         \* history: what the solve() just before this one left behind

vars == << components, subsDic, meas, sSolution, solution, particular, name,
           symbol, equations, unknowns, nodeList, nodeVars, pc, result, elim,
           subsLog, prev >>

regVars == << components, subsDic, meas, name, symbol >>
solVars == << sSolution, solution, particular >>
passVars == << equations, unknowns, nodeList, nodeVars, elim, subsLog >>

\* What a call gave its caller: a returned value (ret; << >> is None) or a
\* raised exception; while solve() runs it has given nothing yet.
Running(op) == [op |-> op, exc |-> "running", ret |-> << >>]
Returned(op, val) == [op |-> op, exc |-> "none", ret |-> val]
Raised(op, ex) == [op |-> op, exc |-> ex, ret |-> None]
\* The same for addCVS and addCIS, with the controller name they were given
ReturnedFor(op, val, cont) == [op |-> op, exc |-> "none", ret |-> val, cont |-> cont]
RaisedFor(op, ex, cont) == [op |-> op, exc |-> ex, ret |-> None, cont |-> cont]

\* circuit.__init__; equations, unknowns, nodeList and nodeVars do not exist
\* until solve() assigns them, and are read only after that.
Init ==
  /\ components = << >>
  /\ subsDic = EmptyDict
  /\ meas = EmptyDict
  /\ sSolution = None
  /\ solution = None
  /\ particular = None
  /\ name = EmptyDict
  /\ symbol = EmptyDict
  /\ equations = << >>
  /\ unknowns = {}
  /\ nodeList = << >>
  /\ nodeVars = EmptyDict
  /\ pc = "idle"
  /\ result = Returned("init", None)
  /\ elim = << >>
  /\ subsLog = << >>
  /\ prev = None

\* The add operations are called between two calls of solve(), never
\* during one.
CanAdd == pc = "idle"
NextName == CompName(Len(components) + 1)

\* ------------------------------------------------------- add operations
\* subsDic after "if value != None: self.subsDic[sy] = value"
SubsAfter(sy, value) == IF value # None THEN Put(subsDic, sy, value[1]) ELSE subsDic

\* addR that rejects a name the symbol table already holds
addRUnique(nm, n1, n2, value) ==
  LET sy == Symbol(nm)
      dict == [k |-> "r", n |-> nm, n1 |-> n1, n2 |-> n2, v |-> value, sy |-> sy]
  IN /\ CanAdd
     /\ IF nm \in DOMAIN symbol
        THEN /\ result' = Raised("addR", "circuitEx")
             /\ UNCHANGED << components, symbol, subsDic >>
        ELSE /\ components' = Append(components, dict)
             /\ symbol' = Put(symbol, nm, sy)
             /\ subsDic' = SubsAfter(sy, value)
             /\ result' = Returned("addR", Some(sy))
     /\ UNCHANGED << meas, name, pc >>
     /\ UNCHANGED solVars
     /\ UNCHANGED passVars
     /\ prev' = None

addR(nm, n1, n2, value) ==
  LET sy == Symbol(nm)
      dict == [k |-> "r", n |-> nm, n1 |-> n1, n2 |-> n2, v |-> value, sy |-> sy]
  IN /\ CanAdd
     /\ components' = Append(components, dict)
     /\ symbol' = Put(symbol, nm, sy)
     /\ subsDic' = SubsAfter(sy, value)
     /\ result' = Returned("addR", Some(sy))
     /\ UNCHANGED << meas, name, pc >>
     /\ UNCHANGED solVars
     /\ UNCHANGED passVars
     /\ prev' = None

addC(nm, n1, n2, value) ==
  LET sy == Symbol(nm)
      dict == [k |-> "c", n |-> nm, n1 |-> n1, n2 |-> n2, v |-> value, sy |-> sy]
  IN /\ CanAdd
     /\ components' = Append(components, dict)
     /\ symbol' = Put(symbol, nm, sy)
     /\ subsDic' = SubsAfter(sy, value)
     /\ result' = Returned("addC", Some(sy))
     /\ UNCHANGED << meas, name, pc >>
     /\ UNCHANGED solVars
     /\ UNCHANGED passVars
     /\ prev' = None

addL(nm, n1, n2, value) ==
  LET sy == Symbol(nm)
      dict == [k |-> "l", n |-> nm, n1 |-> n1, n2 |-> n2, v |-> value, sy |-> sy]
  IN /\ CanAdd
     /\ components' = Append(components, dict)
     /\ symbol' = Put(symbol, nm, sy)
     /\ subsDic' = SubsAfter(sy, value)
     /\ result' = Returned("addL", Some(sy))
     /\ UNCHANGED << meas, name, pc >>
     /\ UNCHANGED solVars
     /\ UNCHANGED passVars
     /\ prev' = None

addV(nm, n1, n2, value) ==
  LET sy == Symbol(nm)
      isy == Symbol("i" \o nm)
      dict == [k |-> "vs", n |-> nm, n1 |-> n1, n2 |-> n2, v |-> value, sy |-> sy,
               isy |-> isy]
  IN /\ CanAdd
     /\ name' = Put(name, isy, "i" \o nm)
     /\ symbol' = Put(Put(symbol, nm, sy), "i" \o nm, isy)
     /\ components' = Append(components, dict)
     /\ subsDic' = SubsAfter(sy, value)
     /\ result' = Returned("addV", Some(sy))
     /\ UNCHANGED << meas, pc >>
     /\ UNCHANGED solVars
     /\ UNCHANGED passVars
     /\ prev' = None

addI(nm, n1, n2, value) ==
  LET sy == Symbol(nm)
      dict == [k |-> "is", n |-> nm, n1 |-> n1, n2 |-> n2, v |-> value, sy |-> sy]
  IN /\ CanAdd
     /\ components' = Append(components, dict)
     /\ symbol' = Put(symbol, nm, sy)
     /\ subsDic' = SubsAfter(sy, value)
     /\ result' = Returned("addI", Some(sy))
     /\ UNCHANGED << meas, name, pc >>
     /\ UNCHANGED solVars
     /\ UNCHANGED passVars
     /\ prev' = None

addVM(nm, n1, n2) ==
  LET sy == Symbol(nm)
      dict == [k |-> "vm", n |-> nm, n1 |-> n1, n2 |-> n2, sy |-> sy]
  IN /\ CanAdd
     /\ name' = Put(name, sy, nm)
     /\ symbol' = Put(symbol, nm, sy)
     /\ components' = Append(components, dict)
     /\ meas' = Put(meas, nm, dict)
     /\ result' = Returned("addVM", Some(sy))
     /\ UNCHANGED << subsDic, pc >>
     /\ UNCHANGED solVars
     /\ UNCHANGED passVars
     /\ prev' = None

addIM(nm, n1, n2) ==
  LET sy == Symbol(nm)
      dict == [k |-> "im", n |-> nm, n1 |-> n1, n2 |-> n2, sy |-> sy]
  IN /\ CanAdd
     /\ name' = Put(name, sy, nm)
     /\ symbol' = Put(symbol, nm, sy)
     /\ components' = Append(components, dict)
     /\ meas' = Put(meas, nm, dict)
     /\ result' = Returned("addIM", Some(sy))
     /\ UNCHANGED << subsDic, pc >>
     /\ UNCHANGED solVars
     /\ UNCHANGED passVars
     /\ prev' = None

\* "try: ctr = self.meas[cont]" succeeds
ControllerDefined(cont) == cont \in DOMAIN meas

\* addCVS without the lookup failure: an unknown controller is taken as a
\* voltage probe of that name that the circuit does not hold
addCVSUnchecked(nm, n1, n2, cont, value) ==
  LET sy == Symbol(nm)
      isy == Symbol("i" \o nm)
      ctr == IF ControllerDefined(cont) THEN meas[cont]
             ELSE [k |-> "vm", n |-> cont, n1 |-> 0, n2 |-> 0, sy |-> Symbol(cont)]
      dict == [k |-> "cvs", n |-> nm, n1 |-> n1, n2 |-> n2, v |-> value,
               sy |-> sy, ctr |-> ctr, isy |-> isy]
  IN /\ CanAdd
     /\ name' = Put(name, isy, "i" \o nm)
     /\ symbol' = Put(Put(symbol, nm, sy), "i" \o nm, isy)
     /\ components' = Append(components, dict)
     /\ subsDic' = SubsAfter(sy, value)
     /\ result' = ReturnedFor("addCVS", Some(sy), cont)
     /\ prev' = None
     /\ UNCHANGED << meas, pc >>
     /\ UNCHANGED solVars
     /\ UNCHANGED passVars

addCVS(nm, n1, n2, cont, value) ==
  /\ CanAdd
  /\ IF ~ControllerDefined(cont)
     THEN /\ result' = RaisedFor("addCVS", "circuitEx", cont)
          /\ UNCHANGED << components, subsDic, meas, name, symbol, pc >>
     ELSE LET sy == Symbol(nm)
              isy == Symbol("i" \o nm)
              dict == [k |-> "cvs", n |-> nm, n1 |-> n1, n2 |-> n2, v |-> value,
                       sy |-> sy, ctr |-> meas[cont], isy |-> isy]
          IN /\ name' = Put(name, isy, "i" \o nm)
             /\ symbol' = Put(Put(symbol, nm, sy), "i" \o nm, isy)
             /\ components' = Append(components, dict)
             /\ subsDic' = SubsAfter(sy, value)
             /\ result' = ReturnedFor("addCVS", Some(sy), cont)
             /\ UNCHANGED << meas, pc >>
  /\ UNCHANGED solVars
  /\ UNCHANGED passVars
  /\ prev' = None

\* addCIS that enters the name in the name-to-symbol table before it looks
\* the controller up
addCISLate(nm, n1, n2, cont, value) ==
  /\ CanAdd
  /\ IF ~ControllerDefined(cont)
     THEN /\ result' = RaisedFor("addCIS", "circuitEx", cont)
          /\ symbol' = Put(symbol, nm, Symbol(nm))
          /\ UNCHANGED << components, subsDic, meas, name, pc >>
     ELSE LET sy == Symbol(nm)
              dict == [k |-> "cis", n |-> nm, n1 |-> n1, n2 |-> n2, v |-> value,
                       sy |-> sy, ctr |-> meas[cont]]
          IN /\ components' = Append(components, dict)
             /\ symbol' = Put(symbol, nm, sy)
             /\ subsDic' = SubsAfter(sy, value)
             /\ result' = ReturnedFor("addCIS", Some(sy), cont)
             /\ UNCHANGED << meas, name, pc >>
  /\ UNCHANGED solVars
  /\ UNCHANGED passVars
  /\ prev' = None

addCIS(nm, n1, n2, cont, value) ==
  /\ CanAdd
  /\ IF ~ControllerDefined(cont)
     THEN /\ result' = RaisedFor("addCIS", "circuitEx", cont)
          /\ UNCHANGED << components, subsDic, meas, name, symbol, pc >>
     ELSE LET sy == Symbol(nm)
              dict == [k |-> "cis", n |-> nm, n1 |-> n1, n2 |-> n2, v |-> value,
                       sy |-> sy, ctr |-> meas[cont]]
          IN /\ components' = Append(components, dict)
             /\ symbol' = Put(symbol, nm, sy)
             /\ subsDic' = SubsAfter(sy, value)
             /\ result' = ReturnedFor("addCIS", Some(sy), cont)
             /\ UNCHANGED << meas, name, pc >>
  /\ UNCHANGED solVars
  /\ UNCHANGED passVars
  /\ prev' = None

\* ------------------------------------------------------------ solve()
\* Initialize equation list and unknowns set; then the passes, in order.
\* What the claims compare between two runs of solve()
Snap == [eqs |-> equations, unk |-> unknowns, nv |-> nodeVars, sSol |-> sSolution,
         sol |-> solution]

\* solve() that initialises the Substitution Map as well
solveResetting ==
  /\ pc = "idle"
  /\ equations' = << >>
  /\ unknowns' = {}
  /\ subsDic' = EmptyDict
  /\ elim' = << >>
  /\ subsLog' = << >>
  /\ prev' = IF result.op = "solve" /\ result.exc = "none" THEN Some(Snap) ELSE None
  /\ pc' = "numNodes"
  /\ result' = Running("solve")
  /\ UNCHANGED << components, meas, name, symbol, nodeList, nodeVars >>
  /\ UNCHANGED solVars

\* solve() without its two initialisations: the equation list and the
\* unknown set of the run before are kept
solveKeep ==
  /\ pc = "idle"
  /\ elim' = << >>
  /\ subsLog' = << >>
  /\ prev' = IF result.op = "solve" /\ result.exc = "none" THEN Some(Snap) ELSE None
  /\ pc' = "numNodes"
  /\ result' = Running("solve")
  /\ UNCHANGED << equations, unknowns, nodeList, nodeVars >>
  /\ UNCHANGED regVars
  /\ UNCHANGED solVars

solve ==
  /\ pc = "idle"
  /\ equations' = << >>
  /\ unknowns' = {}
  /\ elim' = << >>
  /\ subsLog' = << >>
  /\ prev' = IF result.op = "solve" /\ result.exc = "none" THEN Some(Snap) ELSE None
  /\ pc' = "numNodes"
  /\ result' = Running("solve")
  /\ UNCHANGED << nodeList, nodeVars >>
  /\ UNCHANGED regVars
  /\ UNCHANGED solVars

\* An exception leaves solve(): the circuit keeps what the passes did so far.
Abort(ex) ==
  /\ pc' = "idle"
  /\ result' = Raised("solve", ex)
  /\ UNCHANGED prev

\* list(set): the nodes are small integers, which a Python set lists in
\* increasing order.
RECURSIVE SortedSeq(_)
SortedSeq(S) ==
  IF S = {} THEN << >>
  ELSE LET lo == CHOOSE x \in S : \A y \in S : x <= y
       IN << lo >> \o SortedSeq(S \ {lo})

EndPoints(comps) ==
  { comps[i].n1 : i \in 1 .. Len(comps) } \cup { comps[i].n2 : i \in 1 .. Len(comps) }

\* _numNodes without the test for an empty component list
numNodesUnchecked ==
  /\ pc = "numNodes"
  /\ nodeList' = SortedSeq(EndPoints(components))
  /\ pc' = "nodeVariables"
  /\ UNCHANGED << equations, unknowns, nodeVars, elim, subsLog, result, prev >>
  /\ UNCHANGED regVars
  /\ UNCHANGED solVars

numNodes ==
  /\ pc = "numNodes"
  /\ IF Len(components) = 0
     THEN /\ nodeList' = << >>
          /\ Abort("circuitEx")
     ELSE /\ nodeList' = SortedSeq(EndPoints(components))
          /\ pc' = "nodeVariables"
          /\ UNCHANGED << result, prev >>
  /\ UNCHANGED << equations, unknowns, nodeVars, elim, subsLog >>
  /\ UNCHANGED regVars
  /\ UNCHANGED solVars

\* 'v'+str(node)
NodeName(node) == "v" \o ToString(node)
NonZero(list) == { list[i] : i \in 1 .. Len(list) } \ {0}
\* _nodeVariables without the test for node 0
nodeVariablesUnchecked ==
  LET nz == NonZero(nodeList)
      ns(node) == Symbol(NodeName(node))
      nodeOfSym(sy) == CHOOSE node \in nz : ns(node) = sy
      nodeOfName(nm) == CHOOSE node \in nz : NodeName(node) = nm
      newSyms == { ns(node) : node \in nz }
      newNames == { NodeName(node) : node \in nz }
  IN /\ pc = "nodeVariables"
     /\ nodeVars' = [node \in nz |-> PSym(ns(node))]
     /\ unknowns' = unknowns \cup { ns(node) : node \in nz }
     /\ name' = [sy \in (DOMAIN name) \cup newSyms |->
                  IF sy \in newSyms THEN NodeName(nodeOfSym(sy)) ELSE name[sy]]
     /\ symbol' = [nm \in (DOMAIN symbol) \cup newNames |->
                    IF nm \in newNames THEN ns(nodeOfName(nm)) ELSE symbol[nm]]
     /\ pc' = "addKCLequations"
     /\ UNCHANGED << components, subsDic, meas, equations, nodeList, elim, subsLog,
                     result, prev >>
     /\ UNCHANGED solVars

nodeVariables ==
  LET nz == NonZero(nodeList)
      zeroFound == \E i \in 1 .. Len(nodeList) : nodeList[i] = 0
      ns(node) == Symbol(NodeName(node))
      nodeOfSym(sy) == CHOOSE node \in nz : ns(node) = sy
      nodeOfName(nm) == CHOOSE node \in nz : NodeName(node) = nm
      newSyms == { ns(node) : node \in nz }
      newNames == { NodeName(node) : node \in nz }
  IN /\ pc = "nodeVariables"
     /\ IF Len(nodeList) = 0
        THEN /\ nodeVars' = EmptyDict
             /\ Abort("circuitEx")
             /\ UNCHANGED << unknowns, name, symbol >>
        ELSE /\ nodeVars' = [node \in nz |-> PSym(ns(node))]
             /\ unknowns' = unknowns \cup { ns(node) : node \in nz }
             /\ name' = [sy \in (DOMAIN name) \cup newSyms |->
                          IF sy \in newSyms THEN NodeName(nodeOfSym(sy)) ELSE name[sy]]
             /\ symbol' = [nm \in (DOMAIN symbol) \cup newNames |->
                            IF nm \in newNames THEN ns(nodeOfName(nm)) ELSE symbol[nm]]
             /\ IF ~zeroFound
                THEN Abort("circuitEx")
                ELSE pc' = "addKCLequations" /\ UNCHANGED << result, prev >>
     /\ UNCHANGED << components, subsDic, meas, equations, nodeList, elim, subsLog >>
     /\ UNCHANGED solVars

\* ------------------------------------------------------------ KCL stamps
\* v(a) - v(b), where the voltage of ground is left out
Across(nv, a, b) == IF b = 0 THEN nv[a] ELSE PSub(nv[a], nv[b])
\* eq minus the current that a branch of admittance y (a monomial) between
\* the nodes of cm draws out of `node`
PassiveToNode(cm, eq, node, nv, y) ==
  LET e1 == IF cm.n1 = node
            THEN PSub(eq, PScale(Across(nv, cm.n1, cm.n2), 1, y)) ELSE eq
  IN IF cm.n2 = node THEN PSub(e1, PScale(Across(nv, cm.n2, cm.n1), 1, y)) ELSE e1

\* eq - (v1 - v2)/R
addRtoNode(res, eq, node, nv) == PassiveToNode(res, eq, node, nv, MInv(MSym(res.sy)))
\* The capacitor stamp with the impedance 1/(C*s) in place of the admittance
addCtoNodeImpedance(cap, eq, node, nv) ==
  PassiveToNode(cap, eq, node, nv, MInv(MMul(MSym(cap.sy), MSym(s))))
\* eq - C*s*(v1 - v2)
addCtoNode(cap, eq, node, nv) ==
  PassiveToNode(cap, eq, node, nv, MMul(MSym(cap.sy), MSym(s)))
\* eq - (v1 - v2)/(L*s)
addLtoNode(ind, eq, node, nv) ==
  PassiveToNode(ind, eq, node, nv, MInv(MMul(MSym(ind.sy), MSym(s))))

\* The branch stamp with the signs exchanged: - sym into node1's row
BranchToNodeSwapped(cm, eq, node, sym) ==
  LET e1 == IF cm.n1 = node THEN PSub(eq, PSym(sym)) ELSE eq
  IN IF cm.n2 = node THEN PAdd(e1, PSym(sym)) ELSE e1
\* + sym into node1's row, - sym into node2's row
BranchToNode(cm, eq, node, sym) ==
  LET e1 == IF cm.n1 = node THEN PAdd(eq, PSym(sym)) ELSE eq
  IN IF cm.n2 = node THEN PSub(e1, PSym(sym)) ELSE e1
addVtoNode(vs, eq, node) == BranchToNode(vs, eq, node, vs.isy)
\* The current-source stamp with the signs exchanged
addItoNodeSwapped(isr, eq, node) == BranchToNodeSwapped(isr, eq, node, isr.sy)
addItoNode(isr, eq, node) == BranchToNode(isr, eq, node, isr.sy)
addIMtoNode(im, eq, node) == BranchToNode(im, eq, node, im.sy)

\* The dispatch that stamps a voltage probe like a current probe
StampProbes(cm, eq, node, nv) ==
  CASE cm.k = "r" -> addRtoNode(cm, eq, node, nv)
    [] cm.k = "c" -> addCtoNode(cm, eq, node, nv)
    [] cm.k = "l" -> addLtoNode(cm, eq, node, nv)
    [] cm.k \in {"vs", "cvs"} -> addVtoNode(cm, eq, node)
    [] cm.k \in {"is", "cis"} -> addItoNode(cm, eq, node)
    [] cm.k \in {"im", "vm"} -> addIMtoNode(cm, eq, node)
    [] OTHER -> eq
\* The dispatch on the component kind in _addKCLequations
Stamp(cm, eq, node, nv) ==
  CASE cm.k = "r" -> addRtoNode(cm, eq, node, nv)
    [] cm.k = "c" -> addCtoNode(cm, eq, node, nv)
    [] cm.k = "l" -> addLtoNode(cm, eq, node, nv)
    [] cm.k \in {"vs", "cvs"} -> addVtoNode(cm, eq, node)
    [] cm.k \in {"is", "cis"} -> addItoNode(cm, eq, node)
    [] cm.k = "im" -> addIMtoNode(cm, eq, node)
    [] OTHER -> eq

RECURSIVE KCLRowSkipFirst(_, _, _, _)
\* The row whose loop leaves out the first component of the list
KCLRowSkipFirst(comps, i, node, nv) ==
  IF i <= 1 THEN PZero
  ELSE Stamp(comps[i], KCLRowSkipFirst(comps, i - 1, node, nv), node, nv)
RECURSIVE KCLRow(_, _, _, _)
\* The row of `node` after the components 1..i have been stamped
KCLRow(comps, i, node, nv) ==
  IF i = 0 THEN PZero
  ELSE Stamp(comps[i], KCLRow(comps, i - 1, node, nv), node, nv)

RECURSIVE KCLRows(_, _, _, _)
\* The rows of the first j nodes of the list
KCLRows(comps, list, j, nv) ==
  IF j = 0 THEN << >>
  ELSE LET before == KCLRows(comps, list, j - 1, nv)
       IN IF list[j] # 0
          THEN Append(before, Expr(KCLRow(comps, Len(comps), list[j], nv)))
          ELSE before

addKCLequations ==
  /\ pc = "addKCLequations"
  /\ equations' = equations \o KCLRows(components, nodeList, Len(nodeList), nodeVars)
  /\ pc' = "addVequations"
  /\ UNCHANGED << unknowns, nodeList, nodeVars, elim, subsLog, result, prev >>
  /\ UNCHANGED regVars
  /\ UNCHANGED solVars

\* ------------------------------------------------------ reduction passes
\* _substEqs that rewrites the KCL rows only and leaves the appended
\* equalities as they are
substEqsRows(eqs, old, new) ==
  [i \in 1 .. Len(eqs) |-> IF eqs[i].t = "Expr" THEN EqSubs(eqs[i], old, new) ELSE eqs[i]]
\* _substEqs: substitute in all equations
substEqs(eqs, old, new) == [i \in 1 .. Len(eqs) |-> EqSubs(eqs[i], old, new)]

\* The state a pass works on; exc is the exception that ended it, if any.
PassState == [eqs |-> equations, unk |-> unknowns, nv |-> nodeVars, el |-> elim,
              log |-> subsLog, exc |-> "none"]
\* _substEqs on the state of a pass; the log keeps what was replaced by what
\* and how many equations the list had
SubstIn(st, old, new) ==
  [st EXCEPT !.eqs = substEqs(st.eqs, old, new),
             !.log = Append(st.log, [old |-> old, new |-> new, n |-> Len(st.eqs)])]
\* unknowns.remove(x) finds x: x is a symbol of the set (the integer 0 is
\* never in it)
CanRemove(unk, x) ==
  /\ x # PZero
  /\ \E sy \in unk : x = PSym(sy)
KeyError(st) == [st EXCEPT !.exc = "KeyError"]
WithUnknown(st, sy) == [st EXCEPT !.unk = st.unk \cup {sy}]
Appended(st, q) == [st EXCEPT !.eqs = Append(st.eqs, q)]
\* self.unknowns.remove(gone)
Removed(st, gone) ==
  [st EXCEPT !.unk = st.unk \ {SymOf(gone)}, !.el = Append(st.el, SymOf(gone))]

\* The voltage-source step that eliminates the node of a grounded source
\* (node1 on the source, node2 on ground): the node variable is substituted
\* by the source symbol and removed from the unknowns
VStepEliminating(st, cm) ==
  LET st1 == WithUnknown(st, cm.isy)
  IN IF cm.n1 = 0
     THEN IF cm.n2 \notin DOMAIN st.nv THEN KeyError(st1)
          ELSE Appended(st1, Eq(PSym(cm.sy), PNeg(st.nv[cm.n2])))
     ELSE IF cm.n2 = 0 /\ CanRemove(st.unk, st.nv[cm.n1])
     THEN [Removed(SubstIn(st1, st.nv[cm.n1], PSym(cm.sy)), st.nv[cm.n1])
             EXCEPT !.nv = Put(st.nv, cm.n1, PSym(cm.sy))]
     ELSE Appended(st1, Eq(PSym(cm.sy), Across(st.nv, cm.n1, cm.n2)))
\* The voltage-source step that writes the number of a source whose value
\* was given in place of its symbol: n/d = v(n1) - v(n2) as n = d*(v(n1) - v(n2))
VStepValued(st, cm) ==
  LET st1 == WithUnknown(st, cm.isy)
      lhs == IF cm.v = None THEN PSym(cm.sy) ELSE PTerm(cm.v[1][1], MOne)
      d == IF cm.v = None THEN 1 ELSE cm.v[1][2]
  IN IF cm.n1 = 0
     THEN IF cm.n2 \notin DOMAIN st.nv THEN KeyError(st1)
          ELSE Appended(st1, Eq(lhs, PScale(PNeg(st.nv[cm.n2]), d, MOne)))
     ELSE Appended(st1, Eq(lhs, PScale(Across(st.nv, cm.n1, cm.n2), d, MOne)))
\* The voltage-source step with the two nodes exchanged: v(n2) - v(n1)
VStepSwapped(st, cm) ==
  LET st1 == WithUnknown(st, cm.isy)
  IN IF cm.n1 = 0
     THEN IF cm.n2 \notin DOMAIN st.nv THEN KeyError(st1)
          ELSE Appended(st1, Eq(PSym(cm.sy), st.nv[cm.n2]))
     ELSE Appended(st1, Eq(PSym(cm.sy), PNeg(Across(st.nv, cm.n1, cm.n2))))
\* sympy.Eq(cm['sy'], v(n1) - v(n2)), with 0 for the ground
VStep(st, cm) ==
  LET st1 == WithUnknown(st, cm.isy)
  IN IF cm.n1 = 0
     THEN IF cm.n2 \notin DOMAIN st.nv THEN KeyError(st1)
          ELSE Appended(st1, Eq(PSym(cm.sy), PNeg(st.nv[cm.n2])))
     ELSE Appended(st1, Eq(PSym(cm.sy), Across(st.nv, cm.n1, cm.n2)))

\* One current probe: the variable of node n is substituted by `by` and
\* removed from the unknowns, and the node-variable map updated.
IMElim(st, n, by) ==
  LET st1 == SubstIn(st, st.nv[n], by)
  IN IF CanRemove(st.unk, st.nv[n])
     THEN [Removed(st1, st.nv[n]) EXCEPT !.nv = Put(st.nv, n, by)]
     ELSE KeyError(st1)
\* The node a current probe eliminates, and what its variable becomes
IMGone(cm) == IF cm.n1 = 0 THEN cm.n2 ELSE cm.n1
IMBy(cm, nv) == IF cm.n1 = 0 \/ cm.n2 = 0 THEN PZero ELSE nv[cm.n2]
IMStep(st, cm) ==
  IF IMGone(cm) \notin DOMAIN st.nv THEN KeyError(WithUnknown(st, cm.sy))
  ELSE IMElim(WithUnknown(st, cm.sy), IMGone(cm), IMBy(cm, st.nv))

\* One grounded voltage probe on node n: the node variable is substituted by
\* `by`; if it is no unknown any more, an equality is appended instead.
VMElim(st, cm, n, by) ==
  LET st1 == SubstIn(st, st.nv[n], by)
  IN IF CanRemove(st.unk, st.nv[n]) THEN Removed(st1, st.nv[n])
     ELSE Appended(st1, Eq(PSym(cm.sy), st.nv[n]))
VMGone(cm) == IF cm.n1 = 0 THEN cm.n2 ELSE cm.n1
\* The replacement that takes the probe symbol with a plus sign whichever
\* endpoint is on ground
VMByPlus(cm) == PSym(cm.sy)
\* What replaces the node variable: -P with node1 on ground, +P with node2
VMBy(cm) == IF cm.n1 = 0 THEN PNeg(PSym(cm.sy)) ELSE PSym(cm.sy)
VMStep(st, cm) ==
  IF cm.n1 # 0 /\ cm.n2 # 0
  THEN Appended(WithUnknown(st, cm.sy),
                Eq(PSym(cm.sy), PSub(st.nv[cm.n1], st.nv[cm.n2])))
  ELSE IF VMGone(cm) \notin DOMAIN st.nv THEN KeyError(WithUnknown(st, cm.sy))
  ELSE VMElim(WithUnknown(st, cm.sy), cm, VMGone(cm), VMBy(cm))

\* The controlled-source step that stops after the first controlled source
CtrStepFirstOnly(st, cm) ==
  IF \E j \in DOMAIN st.log : Cardinality(PSymbols(st.log[j].new)) = 2 THEN st
  ELSE SubstIn(st, PSym(cm.sy), PTerm(1, MMul(MSym(cm.sy), MSym(cm.ctr.sy))))
\* cm['sy'] -> cm['sy']*cm['ctr']['sy']
CtrStep(st, cm) ==
  SubstIn(st, PSym(cm.sy), PTerm(1, MMul(MSym(cm.sy), MSym(cm.ctr.sy))))

\* The step a pass takes on a component of a kind it handles
StepOf(pass, st, cm) ==
  CASE pass = "V" -> VStep(st, cm)
    [] pass = "IM" -> IMStep(st, cm)
    [] pass = "VM" -> VMStep(st, cm)
    [] OTHER -> CtrStep(st, cm)
KindsOf(pass) ==
  CASE pass = "V" -> {"vs", "cvs"}
    [] pass = "IM" -> {"im"}
    [] pass = "VM" -> {"vm"}
    [] OTHER -> {"cvs", "cis"}

\* The body of the loop for the component cm, on the state st before it
OneMore(pass, cm, st) ==
  IF st.exc # "none" \/ cm.k \notin KindsOf(pass) THEN st ELSE StepOf(pass, st, cm)
RECURSIVE RunPass(_, _, _, _)
\* "for cm in self.components" of a pass, over the components 1..i; the
\* loop ends at the first exception
RunPass(pass, comps, i, st0) ==
  IF i = 0 THEN st0 ELSE OneMore(pass, comps[i], RunPass(pass, comps, i - 1, st0))

\* The circuit takes the state st a pass ended in
PassDone(st, next) ==
  /\ equations' = st.eqs
  /\ unknowns' = st.unk
  /\ nodeVars' = st.nv
  /\ elim' = st.el
  /\ subsLog' = st.log
  /\ IF st.exc # "none" THEN Abort(st.exc)
     ELSE pc' = next /\ UNCHANGED << result, prev >>
  /\ UNCHANGED nodeList
  /\ UNCHANGED regVars
  /\ UNCHANGED solVars
Pass(pass, next) == PassDone(RunPass(pass, components, Len(components), PassState), next)

addVequations == pc = "addVequations" /\ Pass("V", "processIM")
processIM == pc = "processIM" /\ Pass("IM", "processVM")
processVM == pc = "processVM" /\ Pass("VM", "processCtr")
processCtr == pc = "processCtr" /\ Pass("Ctr", "solveEquations")

\* ------------------------------------------------- the algebra engine
\* sympy.solve(equations, unknowns) on the systems the passes produce, which
\* are linear in the unknowns: Gauss-Jordan elimination with polynomial
\* entries.  A solved value is a quotient of two polynomials, << num, den >>.

Abs(i) == IF i < 0 THEN 0 - i ELSE i
RECURSIVE Gcd(_, _)
Gcd(a, b) == IF b = 0 THEN Abs(a) ELSE Gcd(b, a % Abs(b))
RECURSIVE GcdSet(_)
GcdSet(S) ==
  IF S = {} THEN 0
  ELSE LET x == CHOOSE x \in S : TRUE IN Gcd(x, GcdSet(S \ {x}))
SetMin(S) == CHOOSE x \in S : \A y \in S : x <= y

\* The common factor of all terms of the polynomials of the set ps: its
\* monomial and its integer
ContentMono(ps) ==
  LET monos == UNION { DOMAIN p : p \in ps }
      syms == UNION { DOMAIN m : m \in monos }
      lo(x) == SetMin({ MExp(m, x) : m \in monos })
  IN [x \in { y \in syms : lo(y) # 0 } |-> lo(x)]
ContentInt(ps) == GcdSet(UNION { { p[m] : m \in DOMAIN p } : p \in ps })
\* p divided by g*cm, a common factor of its terms
PDiv(p, cm, g) ==
  [m2 \in { MMul(m, MInv(cm)) : m \in DOMAIN p } |-> p[MMul(m2, cm)] \div g]
\* The quotient n/d, cancelled by the common factor of all terms
RatDiv(n, d, cm, g) == << PDiv(n, cm, g), PDiv(d, cm, g) >>
Rat(n, d) ==
  IF n = PZero THEN << PZero, PTerm(1, MOne) >>
  ELSE RatDiv(n, d, ContentMono({n, d}), ContentInt({n, d}))
\* Two quotients denote the same value
RatEq(x, y) == PMul(x[1], y[2]) = PMul(y[1], x[2])

\* The coefficient of the unknown u in p, and the part of p free of unknowns
CoefOf(p, u) ==
  LET ms == { m \in DOMAIN p : u \in DOMAIN m }
  IN [m2 \in { MDrop(m, u) : m \in ms } |-> p[MMul(m2, MSym(u))]]
FreePart(p, U) ==
  [m \in { k \in DOMAIN p : (DOMAIN k) \cap U = {} } |-> p[m]]

RECURSIVE SeqOfSet(_)
\* list(set), in the order the model fixes for the set
SeqOfSet(S) ==
  IF S = {} THEN << >>
  ELSE LET x == CHOOSE x \in S : TRUE IN << x >> \o SeqOfSet(S \ {x})

\* A row of the linear system: row[j] is the coefficient of the unknown
\* cols[j], the last entry the part free of unknowns; their sum is 0.
RowOf(p, cols) ==
  [j \in 1 .. (Len(cols) + 1) |->
     IF j <= Len(cols) THEN CoefOf(p, cols[j])
     ELSE FreePart(p, { cols[i] : i \in DOMAIN cols })]
RowPolys(row) == { row[j] : j \in DOMAIN row }
RowDiv(row, cm, g) == [j \in DOMAIN row |-> PDiv(row[j], cm, g)]
RowReduce(row) == RowDiv(row, ContentMono(RowPolys(row)), ContentInt(RowPolys(row)))
\* rr[j]*ri - ri[j]*rr: the row ri with the column j eliminated by the row rr
RowElim(ri, rr, j) ==
  RowReduce([k \in DOMAIN ri |-> PSub(PMul(ri[k], rr[j]), PMul(rr[k], ri[j]))])
\* The column j eliminated from all rows but the row r
Eliminated(rows, r, j) ==
  [i \in DOMAIN rows |->
     IF i = r \/ rows[i][j] = PZero THEN rows[i] ELSE RowElim(rows[i], rows[r], j)]

RECURSIVE GaussJordan(_, _, _, _)
\* The columns j..n eliminated; piv maps a pivot row to its column
GaussJordan(rows, n, j, piv) ==
  IF j > n THEN [rows |-> rows, piv |-> piv]
  ELSE LET cand == { r \in (DOMAIN rows) \ DOMAIN piv : rows[r][j] # PZero }
       IN IF cand = {} THEN GaussJordan(rows, n, j + 1, piv)
          ELSE GaussJordan(Eliminated(rows, SetMin(cand), j), n, j + 1,
                           Put(piv, SetMin(cand), j))

RECURSIVE RowRest(_, _, _)
\* The part free of unknowns plus the terms row[f]*cols[f] of the free
\* columns f
RowRest(row, cols, todo) ==
  IF todo = {} THEN row[Len(cols) + 1]
  ELSE LET f == CHOOSE f \in todo : TRUE
       IN PAdd(PScale(row[f], 1, MSym(cols[f])), RowRest(row, cols, todo \ {f}))
\* The value the pivot row gives to its column j
ValueOf(row, j, cols, free) == Rat(PNeg(RowRest(row, cols, free)), row[j])
PivotCols(piv) == { piv[r] : r \in DOMAIN piv }
PivotRow(piv, j) == CHOOSE r \in DOMAIN piv : piv[r] = j
ColOf(cols, u) == CHOOSE j \in DOMAIN cols : cols[j] = u
\* The result read off the eliminated system: empty if a row without a
\* pivot is left with a nonzero constant
SolutionOf(gj, cols) ==
  IF \E r \in (DOMAIN gj.rows) \ DOMAIN gj.piv : gj.rows[r][Len(cols) + 1] # PZero
  THEN EmptyDict
  ELSE [u \in { cols[j] : j \in PivotCols(gj.piv) } |->
          ValueOf(gj.rows[PivotRow(gj.piv, ColOf(cols, u))], ColOf(cols, u), cols,
                  (DOMAIN cols) \ PivotCols(gj.piv))]
Rows(eqs, cols) == [i \in DOMAIN eqs |-> RowReduce(RowOf(EqPoly(eqs[i]), cols))]
Solve(eqs, cols) ==
  SolutionOf(GaussJordan(Rows(eqs, cols), Len(cols), 1, EmptyDict), cols)

\* What sympy.solve returns: a dictionary unknown -> value for the unknowns
\* the system determines (the others stay free; an inconsistent system has
\* the empty list as its result, which holds no key).
sympySolve(eqs, U) == Solve(eqs, SeqOfSet(U))

solveEquations ==
  /\ pc = "solveEquations"
  /\ sSolution' = Some(sympySolve(equations, unknowns))
  /\ pc' = "nameSolution"
  /\ UNCHANGED << solution, particular, result, prev >>
  /\ UNCHANGED regVars
  /\ UNCHANGED passVars

\* {self.name[sym]: self.sSolution[sym] for sym in self.sSolution}
Named(sol, names) ==
  [nm \in { names[sy] : sy \in DOMAIN sol } |->
     sol[CHOOSE sy \in DOMAIN sol : names[sy] = nm]]

nameSolution ==
  /\ pc = "nameSolution"
  /\ IF \E sy \in DOMAIN sSolution[1] : sy \notin DOMAIN name
     THEN /\ solution' = Some(EmptyDict)
          /\ Abort("KeyError")
     ELSE /\ solution' = Some(Named(sSolution[1], name))
          /\ pc' = "substituteSolution"
          /\ UNCHANGED << result, prev >>
  /\ UNCHANGED << sSolution, particular >>
  /\ UNCHANGED regVars
  /\ UNCHANGED passVars

SetMax(S) == CHOOSE x \in S : \A y \in S : y <= x
\* The exponents the symbol x has in the terms of the quotient q, and 0
ExpsOf(q, x) == { MExp(m, x) : m \in (DOMAIN q[1]) \cup (DOMAIN q[2]) } \cup {0}
RECURSIVE PSubsNum(_, _, _, _, _, _, _)
\* The terms todo of p with the number n/d put in for x, times d**hi * n**lo
\* (hi: the highest exponent of x, -lo: the lowest one)
PSubsNum(p, x, n, d, hi, lo, todo) ==
  IF todo = {} THEN PZero
  ELSE LET m == CHOOSE m \in todo : TRUE
       IN PAdd(PTerm(p[m] * IPow(n, MExp(m, x) + lo) * IPow(d, hi - MExp(m, x)),
                     MDrop(m, x)),
               PSubsNum(p, x, n, d, hi, lo, todo \ {m}))
\* The quotient q with the number n/d put in for x: numerator and
\* denominator both multiplied by d**hi * n**lo
RatSubsOne(q, x, n, d, hi, lo) ==
  [i \in DOMAIN q |-> PSubsNum(q[i], x, n, d, hi, lo, DOMAIN q[i])]
\* The quotient q cancelled by the common factor of its terms
RatNorm(q) == Rat(q[1], q[2])
RECURSIVE RatSubsR(_, _, _)
RatSubsR(q, dic, todo) ==
  IF todo = {} THEN q
  ELSE LET x == CHOOSE x \in todo : TRUE
       IN RatSubsR(RatNorm(RatSubsOne(q, x, dic[x][1], dic[x][2], SetMax(ExpsOf(q, x)),
                                      0 - SetMin(ExpsOf(q, x)))),
                   dic, todo \ {x})
\* The substitution that leaves the expression as it is
RatSubsKeep(q, dic) == q
\* expr.subs(dic): every symbol of dic replaced by its number
RatSubs(q, dic) == RatSubsR(q, dic, DOMAIN dic)

\* The last statements of solve(): the values substituted, the named
\* solution returned
substituteSolution ==
  /\ pc = "substituteSolution"
  /\ particular' = Some([key \in DOMAIN solution[1] |-> RatSubs(solution[1][key], subsDic)])
  /\ pc' = "idle"
  /\ result' = Returned("solve", solution)
  /\ UNCHANGED prev
  /\ UNCHANGED << sSolution, solution >>
  /\ UNCHANGED regVars
  /\ UNCHANGED passVars

subs ==
  /\ pc = "idle"
  /\ result' = Returned("subs", particular)
  /\ prev' = None
  /\ UNCHANGED pc
  /\ UNCHANGED regVars
  /\ UNCHANGED solVars
  /\ UNCHANGED passVars

\* --------------------------------------------- solve() as a function
\* The node variables _nodeVariables creates for a node list
FreshNodeVars(list) == [node \in NonZero(list) |-> PSym(Symbol(NodeName(node)))]
\* The passes of solve() run on the component list comps of a circuit that
\* has none of the results of an earlier solve(): the state after the last
\* pass reached, with exc the exception that ended it ("none": all ran).
Reduced(comps) ==
  IF Len(comps) = 0
  THEN [eqs |-> << >>, unk |-> {}, nv |-> EmptyDict, el |-> << >>, log |-> << >>,
        exc |-> "circuitEx"]
  ELSE LET list == SortedSeq(EndPoints(comps))
           nv == FreshNodeVars(list)
           st0 == [eqs |-> << >>, unk |-> { Symbol(NodeName(node)) : node \in NonZero(list) },
                   nv |-> nv, el |-> << >>, log |-> << >>, exc |-> "none"]
           kcl == [st0 EXCEPT !.eqs = KCLRows(comps, list, Len(list), nv)]
           n == Len(comps)
       IN IF 0 \notin EndPoints(comps) THEN [st0 EXCEPT !.exc = "circuitEx"]
          ELSE RunPass("Ctr", comps, n,
                 RunPass("VM", comps, n,
                   RunPass("IM", comps, n,
                     RunPass("V", comps, n, kcl))))
\* The symbolic solution solve() computes for comps (symbol -> value)
Solved(comps) == LET st == Reduced(comps) IN sympySolve(st.eqs, st.unk)

\* ------------------------------------------------------- specification
\* The callers add up to MaxComps components, each under a fresh name, and
\* may call solve() and subs() at any time between two add calls.
Room == Len(components) < MaxComps
Next ==
  \/ \E n1 \in Nodes, n2 \in Nodes, value \in ValuesOf("r") :
       Room /\ addR(NextName, n1, n2, value)
  \/ \E n1 \in Nodes, n2 \in Nodes, value \in ValuesOf("c") :
       Room /\ addC(NextName, n1, n2, value)
  \/ \E n1 \in Nodes, n2 \in Nodes, value \in ValuesOf("l") :
       Room /\ addL(NextName, n1, n2, value)
  \/ \E n1 \in Nodes, n2 \in Nodes, value \in ValuesOf("vs") :
       Room /\ addV(NextName, n1, n2, value)
  \/ \E n1 \in Nodes, n2 \in Nodes, value \in ValuesOf("is") :
       Room /\ addI(NextName, n1, n2, value)
  \/ \E n1 \in Nodes, n2 \in Nodes : Room /\ addVM(NextName, n1, n2)
  \/ \E n1 \in Nodes, n2 \in Nodes : Room /\ addIM(NextName, n1, n2)
  \/ \E n1 \in Nodes, n2 \in Nodes, cont \in AllNames, value \in ValuesOf("cvs") :
       Room /\ addCVS(NextName, n1, n2, cont, value)
  \/ \E n1 \in Nodes, n2 \in Nodes, cont \in AllNames, value \in ValuesOf("cis") :
       Room /\ addCIS(NextName, n1, n2, cont, value)
  \/ solve
  \/ numNodes
  \/ nodeVariables
  \/ addKCLequations
  \/ addVequations
  \/ processIM
  \/ processVM
  \/ processCtr
  \/ solveEquations
  \/ nameSolution
  \/ substituteSolution
  \/ subs

Spec == Init /\ [][Next]_vars

\* The callers of this specification choose the names freely: a name may
\* be the name of an earlier component, or the name 'i'+name that addV gives
\* the branch current of a source.  They build circuits of resistors,
\* voltage sources and probes.
Names == { CompName(1), "i" \o CompName(1) }
\* The symbols the passes may put into the unknown set for comps
MayBeUnknown(comps) ==
  { Symbol(NodeName(node)) : node \in Nodes }
    \cup { comps[i].sy : i \in { j \in DOMAIN comps : comps[j].k \in {"vm", "im"} } }
    \cup { comps[i].isy : i \in { j \in DOMAIN comps : comps[j].k \in {"vs", "cvs"} } }
\* The symbols of the component values
ValueSymbols(comps) ==
  { comps[i].sy : i \in { j \in DOMAIN comps : comps[j].k \notin {"vm", "im"} } }
\* solve() is called on the circuits in which no component value is at the
\* same time an unknown: the systems that are linear in the unknowns.
LinearNames == ValueSymbols(components) \cap MayBeUnknown(components) = {}
\* The values they give a voltage source
ValuesNames == { None, Some(Num(10, 1)) }
NextNames ==
  \/ \E nm \in Names, n1 \in Nodes, n2 \in Nodes, value \in ValuesOf("r") :
       Room /\ addR(nm, n1, n2, value)
  \/ \E nm \in Names, n1 \in Nodes, n2 \in Nodes, value \in ValuesNames :
       Room /\ addV(nm, n1, n2, value)
  \/ \E nm \in Names, n1 \in Nodes, n2 \in Nodes : Room /\ addVM(nm, n1, n2)
  \/ \E nm \in Names, n1 \in Nodes, n2 \in Nodes : Room /\ addIM(nm, n1, n2)
  \/ LinearNames /\ solve
  \/ numNodes
  \/ nodeVariables
  \/ addKCLequations
  \/ addVequations
  \/ processIM
  \/ processVM
  \/ processCtr
  \/ solveEquations
  \/ nameSolution
  \/ substituteSolution
  \/ subs

SpecNames == Init /\ [][NextNames]_vars

\* The callers of this specification build circuits with several controlled
\* sources: up to MaxCompsCtr resistors, probes and controlled sources on
\* the nodes 0..MaxNodeCtr.
MaxCompsCtr == 3
MaxNodeCtr == 1
NodesCtr == 0 .. MaxNodeCtr
RoomCtr == Len(components) < MaxCompsCtr
ContNames == { CompName(i) : i \in 1 .. (MaxCompsCtr - 1) }
NextCtr ==
  \/ \E n1 \in NodesCtr, n2 \in NodesCtr : RoomCtr /\ addR(NextName, n1, n2, None)
  \/ \E n1 \in NodesCtr, n2 \in NodesCtr : RoomCtr /\ addVM(NextName, n1, n2)
  \/ \E n1 \in NodesCtr, n2 \in NodesCtr : RoomCtr /\ addIM(NextName, n1, n2)
  \/ \E n1 \in NodesCtr, n2 \in NodesCtr, cont \in ContNames :
       RoomCtr /\ addCVS(NextName, n1, n2, cont, None)
  \/ \E n1 \in NodesCtr, n2 \in NodesCtr, cont \in ContNames :
       RoomCtr /\ addCIS(NextName, n1, n2, cont, None)
  \/ solve
  \/ numNodes
  \/ nodeVariables
  \/ addKCLequations
  \/ addVequations
  \/ processIM
  \/ processVM
  \/ processCtr
  \/ solveEquations
  \/ nameSolution
  \/ substituteSolution

SpecCtr == Init /\ [][NextCtr]_vars

\* The callers of this specification build series circuits: up to
\* MaxCompsDiv components, resistors and at most one independent source,
\* each between two different nodes, with or without a numeric value.  They
\* complete the circuit before they read a solution: once solve() has
\* solved the equations they add nothing and do not call it again.
MaxCompsDiv == 3
Building == sSolution = None
RoomDiv == Building /\ Len(components) < MaxCompsDiv
ValuesDiv(k) ==
  CASE k = "vs" -> { None, Some(Num(10, 1)) }
    [] k = "is" -> { None, Some(Num(1, 1000)) }
    [] OTHER -> { None, Some(Num(1000, 1)), Some(Num(2000, 1)) }
NoSource == \A i \in DOMAIN components : components[i].k = "r"
NextDiv ==
  \/ \E n1 \in Nodes, n2 \in Nodes, value \in ValuesDiv("r") :
       RoomDiv /\ n1 # n2 /\ addR(NextName, n1, n2, value)
  \/ \E n1 \in Nodes, n2 \in Nodes, value \in ValuesDiv("vs") :
       RoomDiv /\ n1 # n2 /\ NoSource /\ addV(NextName, n1, n2, value)
  \/ \E n1 \in Nodes, n2 \in Nodes, value \in ValuesDiv("is") :
       RoomDiv /\ n1 # n2 /\ NoSource /\ addI(NextName, n1, n2, value)
  \/ Building /\ solve
  \/ numNodes
  \/ nodeVariables
  \/ addKCLequations
  \/ addVequations
  \/ processIM
  \/ processVM
  \/ processCtr
  \/ solveEquations
  \/ nameSolution
  \/ substituteSolution
  \/ subs

SpecDiv == Init /\ [][NextDiv]_vars

\* Probe circuits: resistors without values and voltage and current probes
\* between two different nodes, up to three components, so that probes can
\* share a node, form a chain or lie in parallel; the caller completes the
\* circuit and solves it once.
MaxCompsProbe == 3
RoomProbe == Building /\ Len(components) < MaxCompsProbe
NextProbe ==
  \/ \E n1 \in Nodes, n2 \in Nodes :
       RoomProbe /\ n1 # n2 /\ addR(NextName, n1, n2, None)
  \/ \E n1 \in Nodes, n2 \in Nodes :
       RoomProbe /\ n1 # n2 /\ addVM(NextName, n1, n2)
  \/ \E n1 \in Nodes, n2 \in Nodes :
       RoomProbe /\ n1 # n2 /\ addIM(NextName, n1, n2)
  \/ Building /\ solve
  \/ numNodes
  \/ nodeVariables
  \/ addKCLequations
  \/ addVequations
  \/ processIM
  \/ processVM
  \/ processCtr
  \/ solveEquations
  \/ nameSolution
  \/ substituteSolution
  \/ subs

SpecProbe == Init /\ [][NextProbe]_vars

\* ---------------------------------------------------------------- claims
\* The components of comps whose kind is one of ks
OfKind(comps, ks) == { i \in DOMAIN comps : comps[i].k \in ks }
ProbeKinds == {"vm", "im"}
ProbeNames(comps) == { comps[i].n : i \in OfKind(comps, ProbeKinds) }
OtherNames(comps) == { comps[i].n : i \in (DOMAIN comps) \ OfKind(comps, ProbeKinds) }
\* No solve() has been called on the circuit
NeverSolved == nodeList = << >> /\ sSolution = None /\ result.op # "solve" /\ pc = "idle"
\* The last call was a solve() and it returned
SolveReturned == pc = "idle" /\ result.op = "solve" /\ result.exc = "none"
\* The last call was a solve() and it raised the circuit exception
SolveRejected == pc = "idle" /\ result = Raised("solve", "circuitEx")

\* C1: the last call of addCVS or addCIS raised the circuit exception, in
\* the add call itself, exactly if its controller name was not the name of
\* a probe of the circuit; otherwise it returned and appended the source,
\* which holds the record of that probe.
C1_ControllerChecked ==
  result.op \in {"addCVS", "addCIS"} =>
    /\ pc = "idle"
    /\ result.exc = (IF result.cont \in ProbeNames(components) THEN "none" ELSE "circuitEx")
    /\ result.exc = "none" =>
         /\ components[Len(components)].k = (IF result.op = "addCVS" THEN "cvs" ELSE "cis")
         /\ components[Len(components)].ctr.n = result.cont
         /\ components[Len(components)].ctr.k \in ProbeKinds
\* C1 happens: addCVS was rejected for a controller name that only a
\* component other than a probe has, on a circuit never solved
C1_Witness ==
  /\ result.op = "addCVS"
  /\ result.exc = "circuitEx"
  /\ result.cont \in OtherNames(components)
  /\ NeverSolved

\* C2: the circuit exists after its construction without an exception, and
\* while the component list is empty solve() gets no further than node
\* discovery, assembles no equation, no unknown and no node variable, and
\* ends with the circuit exception.
C2_EmptyRejected ==
  /\ result.op = "init" => (result.exc = "none" /\ pc = "idle")
  /\ Len(components) = 0 =>
       /\ pc \in {"idle", "numNodes"}
       /\ equations = << >> /\ unknowns = {} /\ nodeVars = EmptyDict
       /\ (pc = "idle" /\ result.op = "solve") => result = Raised("solve", "circuitEx")
\* C2 happens: solve() was rejected on the empty circuit
C2_Witness == Len(components) = 0 /\ SolveRejected

\* C3: on a non-empty circuit without node 0 solve() gets no further than
\* the creation of the node variables, assembles no equation, ends with the
\* circuit exception and leaves no solution behind.
C3_NoReferenceRejected ==
  (Len(components) > 0 /\ 0 \notin EndPoints(components)) =>
    /\ pc \in {"idle", "numNodes", "nodeVariables"}
    /\ equations = << >>
    /\ sSolution = None /\ solution = None /\ particular = None
    /\ (pc = "idle" /\ result.op = "solve") => result = Raised("solve", "circuitEx")
\* C3 happens: solve() was rejected on a circuit with components and no
\* node 0
C3_Witness ==
  /\ Len(components) > 0
  /\ 0 \notin EndPoints(components)
  /\ SolveRejected

\* The node set is node 0 plus at least one other node
WellFormedNodes(comps) == 0 \in EndPoints(comps) /\ EndPoints(comps) \ {0} # {}
\* C4: a solve() on a circuit whose node set is not node 0 plus at least
\* one other node ends with the circuit exception.
C4_GroundOnlyRejected ==
  (pc = "idle" /\ result.op = "solve" /\ ~WellFormedNodes(components)) =>
    result = Raised("solve", "circuitEx")

\* C5: a solve() or subs() that returns gives its caller a mapping, not
\* None, which is not empty, and no such call returns on a malformed circuit.
C5_MappingOrError ==
  (pc = "idle" /\ result.op \in {"solve", "subs"} /\ result.exc = "none") =>
    /\ result.ret # None
    /\ DOMAIN result.ret[1] # {}
    /\ WellFormedNodes(components)

\* C6: a solve() called right after a solve() that returned starts its
\* passes with no equation and no unknown of the first call, returns too,
\* and leaves the equation list, the unknown set, the node-variable map, the
\* symbolic solution and the named solution of the first call.
C6_SolveIdempotent ==
  /\ (pc = "numNodes" /\ prev # None) => (equations = << >> /\ unknowns = {})
  /\ (pc = "idle" /\ result.op = "solve" /\ prev # None) =>
       /\ result.exc = "none"
       /\ Snap = prev[1]
       /\ result.ret = prev[1].sol
\* C6 happens: the second of two solve() calls returned, on a circuit whose
\* passes substitute and whose solution is not empty
C6_Witness ==
  /\ SolveReturned
  /\ prev # None
  /\ Len(equations) >= 2
  /\ subsLog # << >>
  /\ DOMAIN solution[1] # {}

\* The phases of solve(), in the order of the claim
PhaseOrder ==
  << "numNodes", "nodeVariables", "addKCLequations", "addVequations", "processIM",
     "processVM", "processCtr", "solveEquations", "nameSolution", "substituteSolution" >>
\* A step from the position a to the position b follows the order: solve()
\* starts with the first phase, goes from a phase to the next one, returns
\* from the last one, and leaves any other phase only by an exception.
InOrder(a, b, res) ==
  \/ a = "idle" /\ b \in {"idle", PhaseOrder[1]}
  \/ \E i \in 1 .. (Len(PhaseOrder) - 1) : a = PhaseOrder[i] /\ b = PhaseOrder[i + 1]
  \/ a = PhaseOrder[Len(PhaseOrder)] /\ b = "idle" /\ res.exc = "none"
  \/ a # "idle" /\ b = "idle" /\ res.exc \notin {"none", "running"}
\* The last substitution of a symbol by an expression without it has left
\* the symbol in none of the equations that the list held at that moment.
LastSubstGlobal ==
  subsLog # << >> =>
    LET e == subsLog[Len(subsLog)]
    IN (e.old # PZero /\ SymOf(e.old) \notin PSymbols(e.new)) =>
         \A i \in 1 .. e.n : SymOf(e.old) \notin EqSymbols(equations[i])
\* C7: every step of solve() follows the order of the phases, and every
\* substitution of a pass rewrites all equations of the list, the equalities
\* appended by earlier passes included.
C7_PhasesAndGlobalSubst == [][InOrder(pc, pc', result') /\ LastSubstGlobal']_vars
\* C7 happens: solve() returned and the equality of a voltage source, which
\* the voltage-source pass appended, holds the symbol a probe pass put in
C7_Witness ==
  /\ SolveReturned
  /\ \E i \in OfKind(components, {"vs"}), j \in OfKind(components, ProbeKinds),
        q \in DOMAIN equations :
       /\ equations[q].t = "Eq"
       /\ equations[q].s[1] = PSym(components[i].sy)
       /\ components[j].sy \in PSymbols(equations[q].s[2])
       /\ \E l \in DOMAIN subsLog : subsLog[l].new \in { PSym(components[j].sy),
                                                        PNeg(PSym(components[j].sy)) }

\* The number of times the symbol x was removed from the unknown set
Removals(x) == Cardinality({ j \in DOMAIN elim : elim[j] = x })
NodeSymbols == { Symbol(NodeName(node)) : node \in NonZero(nodeList) }
\* The components have distinct names (the contract of the add operations)
UniqueNames(comps) == \A i \in DOMAIN comps, j \in DOMAIN comps : comps[i].n = comps[j].n => i = j
\* C8: after a solve() that returned, on a circuit whose components have
\* distinct names, every node voltage was removed from the unknowns exactly
\* once or is an unknown, and the unknown set has one element per node
\* voltage not removed, per voltage source and per probe.
C8_EliminationCount ==
  (SolveReturned /\ UniqueNames(components)) =>
    /\ \A x \in NodeSymbols :
         \/ Removals(x) = 1 /\ x \notin unknowns
         \/ Removals(x) = 0 /\ x \in unknowns
    /\ Cardinality(unknowns) =
         Cardinality({ x \in NodeSymbols : Removals(x) = 0 })
           + Cardinality(OfKind(components, {"vs", "cvs"}))
           + Cardinality(OfKind(components, ProbeKinds))

\* The controlled-source pass of the last solve() has run
CtrDone == pc \in {"solveEquations", "nameSolution", "substituteSolution"} \/ SolveReturned
\* In the monomial m the gain k occurs only together with the controller vc
TimesController(m, k, vc) == MExp(m, k) # 0 => (MExp(m, k) > 0 /\ MExp(m, vc) >= MExp(m, k))
\* C9: after the controlled-source pass, in every term of every equation
\* the gain symbol of every controlled source is multiplied by the symbol
\* of its controller.
C9_GainTimesController ==
  CtrDone =>
    \A i \in OfKind(components, {"cvs", "cis"}), q \in DOMAIN equations :
      \A j \in DOMAIN equations[q].s : \A m \in DOMAIN equations[q].s[j] :
        TimesController(m, components[i].sy, components[i].ctr.sy)
\* The gain of the component i occurs in an equation of type t
GainIn(i, t) ==
  \E q \in DOMAIN equations :
    equations[q].t = t /\ components[i].sy \in EqSymbols(equations[q])
\* C9 happens: solve() returned on a circuit with a controlled voltage
\* source and a controlled current source, one gain in a KCL row and the
\* other in an equality
C9_Witness ==
  /\ SolveReturned
  /\ \E i \in OfKind(components, {"cvs"}), j \in OfKind(components, {"cis"}) :
       GainIn(i, "Eq") /\ GainIn(j, "Expr")

\* The node n of a circuit in which the nodes a and b are one: the node
\* that the current probe between a and b keeps
Merged(n, a, b) ==
  IF n \in {a, b} THEN (IF a = 0 \/ b = 0 THEN 0 ELSE b) ELSE n
MergeNodes(comps, a, b) ==
  [i \in DOMAIN comps |->
     [comps[i] EXCEPT !.n1 = Merged(comps[i].n1, a, b), !.n2 = Merged(comps[i].n2, a, b)]]
\* addIM(nm, a, b) on the component list comps
WithProbe(comps, nm, a, b) ==
  Append(comps, [k |-> "im", n |-> nm, n1 |-> a, n2 |-> b, sy |-> Symbol(nm)])
\* The value q of a solution is free of the unknowns unk
Determined(q, unk) == (PSymbols(q[1]) \cup PSymbols(q[2])) \cap unk = {}
\* The passes end without an exception in both states, and the solutions sp
\* (of rp, with the probe) and sm (of rm, nodes merged) give every node
\* voltage that is an unknown of both and has a value in both the same value
SameVoltages(rp, sp, rm, sm) ==
  /\ rp.exc = "none"
  /\ \A x \in { Symbol(NodeName(node)) : node \in Nodes } :
       (/\ x \in rp.unk \cap rm.unk
        /\ x \in (DOMAIN sp) \cap (DOMAIN sm)
        /\ Determined(sp[x], rp.unk)
        /\ Determined(sm[x], rm.unk)) => RatEq(sp[x], sm[x])
ShortCircuitLaw(comps, a, b) ==
  Reduced(MergeNodes(comps, a, b)).exc = "none" =>
    SameVoltages(Reduced(WithProbe(comps, NextName, a, b)),
                 Solved(WithProbe(comps, NextName, a, b)),
                 Reduced(MergeNodes(comps, a, b)),
                 Solved(MergeNodes(comps, a, b)))
\* C10: for the circuit built so far and any two of its nodes, if the
\* circuit with the two nodes merged is solved, the circuit with a current
\* probe added between them is solved too, with the same values of the node
\* voltages that are its unknowns.
C10_ProbeShortCircuit ==
  NeverSolved =>
    \A a \in EndPoints(components), b \in EndPoints(components) :
      a # b => ShortCircuitLaw(components, a, b)

\* The component cm lies between the nodes x and y, in either direction
Between(cm, x, y) == { cm.n1, cm.n2 } = { x, y } /\ x # y
\* The components iv, i1, i2 of comps make a divider on the nodes a and b:
\* a voltage source from a (node1) to ground, a resistor between a and b
\* and a resistor between b and ground
IsDivider(comps, iv, i1, i2, a, b) ==
  /\ Len(comps) = 3 /\ { iv, i1, i2 } = 1 .. 3
  /\ a # 0 /\ b # 0 /\ a # b
  /\ comps[iv].k = "vs" /\ comps[iv].n1 = a /\ comps[iv].n2 = 0
  /\ comps[i1].k = "r" /\ Between(comps[i1], a, b)
  /\ comps[i2].k = "r" /\ Between(comps[i2], b, 0)
NodeSym(n) == Symbol(NodeName(n))
\* The number or expression p as a quotient
Whole(p) == << p, PTerm(1, MOne) >>
RECURSIVE DenProd(_, _)
\* The product of the denominators of the values asg gives the unknowns S
DenProd(asg, S) ==
  IF S = {} THEN PTerm(1, MOne)
  ELSE LET u == CHOOSE u \in S : TRUE IN PMul(asg[u][2], DenProd(asg, S \ {u}))
RECURSIVE Plugged(_, _, _)
\* p, linear in the unknowns, with the value asg[u] put in for every
\* unknown u, times the product of all denominators
Plugged(p, asg, todo) ==
  IF todo = {} THEN PMul(FreePart(p, DOMAIN asg), DenProd(asg, DOMAIN asg))
  ELSE LET u == CHOOSE u \in todo : TRUE
       IN PAdd(PMul(PMul(CoefOf(p, u), asg[u][1]), DenProd(asg, (DOMAIN asg) \ {u})),
               Plugged(p, asg, todo \ {u}))
\* The values asg of the unknowns satisfy the equation q
Satisfies(q, asg) == q.t = "True" \/ Plugged(EqPoly(q), asg, DOMAIN asg) = PZero
\* The values asg satisfy all equations of the list, and the solution sol
\* leaves no unknown free: no other values satisfy them
OnlySolution(eqs, unk, sol, asg) ==
  /\ DOMAIN asg = unk
  /\ \A q \in DOMAIN eqs : Satisfies(eqs[q], asg)
  /\ DOMAIN sol = unk
  /\ \A u \in unk : Determined(sol[u], unk)
\* The divider formula: v(a) = V, v(b) = V*R2/(R1+R2); the branch current
\* of the source as the solution has it
DividerValues(sol, V, R1, R2, a, b, isy) ==
  [u \in { NodeSym(a), NodeSym(b), isy } |->
     IF u = NodeSym(a) THEN Whole(PSym(V))
     ELSE IF u = NodeSym(b) THEN << PMul(PSym(V), PSym(R2)), PAdd(PSym(R1), PSym(R2)) >>
     ELSE sol[u]]
DividerLaw(comps, iv, i1, i2, a, b) ==
  /\ comps[iv].isy \in DOMAIN sSolution[1]
  /\ OnlySolution(equations, unknowns, sSolution[1],
                  DividerValues(sSolution[1], comps[iv].sy, comps[i1].sy, comps[i2].sy,
                                a, b, comps[iv].isy))
  /\ RatEq(sSolution[1][NodeSym(a)], Whole(PSym(comps[iv].sy)))
  /\ RatEq(sSolution[1][NodeSym(b)],
           << PMul(PSym(comps[iv].sy), PSym(comps[i2].sy)),
              PAdd(PSym(comps[i1].sy), PSym(comps[i2].sy)) >>)
\* C11: when solve() has returned on a divider (a voltage source V from a
\* node a to ground, a resistor R1 between a and b, a resistor R2 between b
\* and ground), the equations it left are satisfied by v(a) = V and
\* v(b) = V*R2/(R1+R2), no unknown is left free, and these two values are
\* the ones of the symbolic solution.
C11_DividerFormula ==
  SolveReturned =>
    \A iv \in 1 .. 3, i1 \in 1 .. 3, i2 \in 1 .. 3, a \in Nodes, b \in Nodes :
      IsDivider(components, iv, i1, i2, a, b) => DividerLaw(components, iv, i1, i2, a, b)
\* C11 happens: solve() returned on a divider whose source was added last,
\* on node 2, and whose upper resistor was added from b to a
C11_Witness ==
  /\ SolveReturned
  /\ IsDivider(components, 3, 1, 2, 2, 1)
  /\ components[1].n1 = 1
  /\ Len(equations) = 3

\* The quotient q is the number n/d
IsNumber(q, n, d) ==
  /\ PSymbols(q[1]) \cup PSymbols(q[2]) = {}
  /\ RatEq(q, << PTerm(n, MOne), PTerm(d, MOne) >>)
\* The three components have the values vv, v1 and v2
HasValues(comps, iv, i1, i2, vv, v1, v2) ==
  comps[iv].v = Some(vv) /\ comps[i1].v = Some(v1) /\ comps[i2].v = Some(v2)
\* The circuit of the scenario: V = 10 from node 1 to ground, 1000 between
\* the nodes 1 and 2, 1000 between node 2 and ground
IsScenarioV(comps, iv, i1, i2) ==
  /\ IsDivider(comps, iv, i1, i2, 1, 2)
  /\ HasValues(comps, iv, i1, i2, Num(10, 1), Num(1000, 1), Num(1000, 1))
\* The name of the branch current of the source comps[iv]
CurrentName(comps, iv) == "i" \o comps[iv].n
\* C12 as stated: on the scenario circuit the value-substituted solution
\* has v2 = 5 and the branch current of the source = -0.005 = -1/200.
C12_ScenarioNegativeCurrent ==
  SolveReturned =>
    \A iv \in 1 .. 3, i1 \in 1 .. 3, i2 \in 1 .. 3 :
      IsScenarioV(components, iv, i1, i2) =>
        /\ IsNumber(particular[1]["v2"], 5, 1)
        /\ IsNumber(particular[1][CurrentName(components, iv)], 0 - 1, 200)
\* C12 as amended: on the scenario circuit the value-substituted solution,
\* which subs() returns, has v2 = 5, v1 = 10 and the branch current of the
\* source = +0.005 = 1/200.
C12_ScenarioCurrent ==
  (pc = "idle" /\ sSolution # None /\ result.exc = "none" /\ result.op \in {"solve", "subs"}) =>
    \A iv \in 1 .. 3, i1 \in 1 .. 3, i2 \in 1 .. 3 :
      IsScenarioV(components, iv, i1, i2) =>
        /\ DOMAIN particular[1] = { "v1", "v2", CurrentName(components, iv) }
        /\ IsNumber(particular[1]["v2"], 5, 1)
        /\ IsNumber(particular[1]["v1"], 10, 1)
        /\ IsNumber(particular[1][CurrentName(components, iv)], 1, 200)
        /\ result.op = "subs" => result.ret = particular
\* C12 happens: subs() returned the value-substituted solution of the
\* scenario circuit, added in the order V1, R1, R2
C12_Witness ==
  /\ result.op = "subs" /\ result.ret # None
  /\ IsScenarioV(components, 1, 2, 3)
  /\ components[2].n1 = 1 /\ components[3].n1 = 2

\* The circuit of the second scenario: I = 1/1000 with node1 = 1 and node2 =
\* ground, 2000 between the nodes 1 and 2, 2000 between node 2 and ground
IsScenarioI(comps, ii, i1, i2) ==
  /\ Len(comps) = 3 /\ { ii, i1, i2 } = 1 .. 3
  /\ comps[ii].k = "is" /\ comps[ii].n1 = 1 /\ comps[ii].n2 = 0
  /\ comps[i1].k = "r" /\ Between(comps[i1], 1, 2)
  /\ comps[i2].k = "r" /\ Between(comps[i2], 2, 0)
  /\ HasValues(comps, ii, i1, i2, Num(1, 1000), Num(2000, 1), Num(2000, 1))
\* C13: when solve() has returned on the circuit of the second scenario,
\* the value-substituted solution holds exactly the two node voltages,
\* v1 = 4 and v2 = 2.
C13_ScenarioCurrentSource ==
  SolveReturned =>
    \A ii \in 1 .. 3, i1 \in 1 .. 3, i2 \in 1 .. 3 :
      IsScenarioI(components, ii, i1, i2) =>
        /\ DOMAIN particular[1] = { "v1", "v2" }
        /\ IsNumber(particular[1]["v1"], 4, 1)
        /\ IsNumber(particular[1]["v2"], 2, 1)
\* C13 happens: solve() returned on the circuit of the second scenario,
\* added in the order R1, R2, I1
C13_Witness ==
  /\ SolveReturned
  /\ IsScenarioI(components, 3, 1, 2)
  /\ particular # None

\* The component list of the same add calls with the value val (None or a
\* number) given to every component that takes a value
Revalued(comps, val) ==
  [i \in DOMAIN comps |->
     IF "v" \in DOMAIN comps[i] THEN [comps[i] EXCEPT !.v = val] ELSE comps[i]]
\* C14: when solve() has returned, the equation list, the unknown set and
\* the symbolic solution are the ones of the circuit built by the same add
\* calls without any value, and the passes end in the same state for the
\* same add calls with another value for every component.
C14_ValuesOnlyInParticular ==
  SolveReturned =>
    /\ Reduced(Revalued(components, None)).exc = "none"
    /\ equations = Reduced(Revalued(components, None)).eqs
    /\ unknowns = Reduced(Revalued(components, None)).unk
    /\ sSolution[1] = Solved(Revalued(components, None))
    /\ Reduced(Revalued(components, Some(Num(3, 7)))) = Reduced(Revalued(components, None))
\* C14 happens: solve() returned on a circuit with a voltage source and a
\* resistor whose values were given, and the values changed the solution
C14_Witness ==
  /\ SolveReturned
  /\ \E i \in OfKind(components, {"vs"}), j \in OfKind(components, {"r"}) :
       components[i].v # None /\ components[j].v # None
  /\ particular # solution
  /\ DOMAIN solution[1] # {}

AddOps == { "addR", "addC", "addL", "addV", "addI", "addCVS", "addCIS", "addVM", "addIM" }
\* The last call was an add operation and it returned
AddReturned == result.op \in AddOps /\ result.exc = "none"
\* The record the last add operation appended
LastAdded == components[Len(components)]
\* C15: after an add operation that returned, the last record of the
\* component list is the new component, the name-to-symbol map takes its
\* name to its symbol, the symbol-to-name map takes that symbol back to the
\* name, and the symbol has a Substitution-Map entry exactly if a value was
\* given.
C15_AddUpdatesTables ==
  AddReturned =>
    /\ Len(components) >= 1
    /\ result.ret = Some(LastAdded.sy)
    /\ LastAdded.n \in DOMAIN symbol /\ symbol[LastAdded.n] = LastAdded.sy
    /\ LastAdded.sy \in DOMAIN name /\ name[LastAdded.sy] = LastAdded.n
    /\ LastAdded.sy \in DOMAIN subsDic <=> ("v" \in DOMAIN LastAdded /\ LastAdded.v # None)

\* The dictionary g holds every entry of the dictionary f
Extends(g, f) == \A k \in DOMAIN f : k \in DOMAIN g /\ g[k] = f[k]
\* A step of solve(): the call, one of its passes, or its end
SolveStep(a, b) == a # "idle" \/ b # "idle"
\* C16: no step of solve(), returning or raising, changes the component
\* list, the probe dictionary or the Substitution Map; a step that changes
\* one of them is an add operation that returned, it appends one record to
\* the list and keeps every entry the two dictionaries held.
C16_SolveKeepsRegistry ==
  [][/\ SolveStep(pc, pc') =>
          (components' = components /\ meas' = meas /\ subsDic' = subsDic)
     /\ << components, meas, subsDic >>' # << components, meas, subsDic >> =>
          /\ result'.op \in AddOps /\ result'.exc = "none"
          /\ Len(components') = Len(components) + 1
          /\ SubSeq(components', 1, Len(components)) = components
          /\ Extends(meas', meas) /\ Extends(subsDic', subsDic)]_vars
\* C16 happens: one solve() returned and a later one raised, on a circuit
\* with a probe and a value
C16_Witness ==
  /\ pc = "idle" /\ result.op = "solve" /\ result.exc \notin {"none", "running"}
  /\ sSolution # None
  /\ DOMAIN meas # {} /\ DOMAIN subsDic # {}

\* A step in which an add operation was called
AddStep(a, b, res) == a = "idle" /\ b = "idle" /\ res.op \in AddOps
\* The name of the record cm is the name of a record of comps
NameUsed(comps, cm) == \E i \in DOMAIN comps : comps[i].n = cm.n
\* C17: an add operation returns whether or not its name is in use; it
\* appends its record and keeps the earlier ones, and if an earlier record
\* has the same name, the name-to-symbol entry of the name is the symbol of
\* the new record and, if a value was given, the Substitution-Map entry of
\* that symbol is the new value.
C17_DuplicateNameOverwrites ==
  [][AddStep(pc, pc', result') =>
       /\ result'.exc = "none"
       /\ Len(components') = Len(components) + 1
       /\ SubSeq(components', 1, Len(components)) = components
       /\ NameUsed(components, LastAdded') =>
            /\ symbol'[LastAdded'.n] = LastAdded'.sy
            /\ ("v" \in DOMAIN LastAdded' /\ LastAdded'.v # None) =>
                 subsDic'[LastAdded'.sy] = LastAdded'.v[1]]_vars
\* C17 happens: a voltage source with a value was added under the name of
\* a resistor with another value, which is still the first record
C17_Witness ==
  /\ AddReturned
  /\ Len(components) = 2
  /\ components[1].k = "r" /\ components[2].k = "vs"
  /\ components[1].n = components[2].n
  /\ components[1].v = Some(Num(2, 1))
  /\ subsDic[components[2].sy] = Num(10, 1)

\* KCL assembly has just run
AfterKCL == pc = "addVequations"
\* The components of comps attached to the node
Attached(comps, node) == { i \in DOMAIN comps : node \in { comps[i].n1, comps[i].n2 } }
RECURSIVE SumOfStamps(_, _, _, _)
\* The sum of what each component of the set S alone adds to the row of
\* the node
SumOfStamps(comps, S, node, nv) ==
  IF S = {} THEN PZero
  ELSE LET i == CHOOSE i \in S : TRUE
       IN PAdd(Stamp(comps[i], PZero, node, nv), SumOfStamps(comps, S \ {i}, node, nv))
\* The nodes other than 0 in the order of the node list
NonGround == SelectSeq(nodeList, LAMBDA n : n # 0)
\* C18: right after KCL assembly the equation list has one row for every
\* discovered node other than 0, in the order of the node list, and none
\* for node 0: (number of distinct endpoints) - 1 rows, each a bare
\* expression that is the sum of what the components attached to its node
\* contribute.
C18_OneRowPerNode ==
  AfterKCL =>
    /\ Len(equations) = Cardinality(EndPoints(components)) - 1
    /\ Len(equations) = Len(NonGround)
    /\ \A r \in DOMAIN equations :
         equations[r] =
           Expr(SumOfStamps(components, Attached(components, NonGround[r]), NonGround[r],
                            nodeVars))
\* C18 happens: KCL assembly made two rows, and the first holds the
\* contributions of two components
C18_Witness ==
  /\ AfterKCL
  /\ Len(equations) = 2
  /\ Len(components) = 2
  /\ Attached(components, NonGround[1]) = {1, 2}
  /\ { components[1].sy, components[2].sy } \subseteq EqSymbols(equations[1])

PassiveKinds == { "r", "c", "l" }
\* The admittance of a passive component: 1/R, s*C, 1/(s*L)
Admittance(cm) ==
  CASE cm.k = "r" -> PTerm(1, MInv(MSym(cm.sy)))
    [] cm.k = "c" -> PMul(PSym(s), PSym(cm.sy))
    [] cm.k = "l" -> PTerm(1, MInv(MMul(MSym(s), MSym(cm.sy))))
\* The voltage of a node: the ground has no variable and no term
VoltageAt(nv, n) == IF n = 0 THEN PZero ELSE nv[n]
\* (Vn1 - Vn2)*Y of the passive component cm
BranchCurrent(cm, nv) ==
  PMul(PSub(VoltageAt(nv, cm.n1), VoltageAt(nv, cm.n2)), Admittance(cm))
\* What the claim has cm add to the row of the node
PassiveShare(cm, node, nv) ==
  PAdd(IF cm.n1 = node THEN PNeg(BranchCurrent(cm, nv)) ELSE PZero,
       IF cm.n2 = node THEN BranchCurrent(cm, nv) ELSE PZero)
RECURSIVE RowByClaim(_, _, _, _)
\* The row of the node with the shares of the passive components 1..i as
\* the claim states them and the stamps of the others
RowByClaim(comps, i, node, nv) ==
  IF i = 0 THEN PZero
  ELSE PAdd(RowByClaim(comps, i - 1, node, nv),
            IF comps[i].k \in PassiveKinds THEN PassiveShare(comps[i], node, nv)
            ELSE Stamp(comps[i], PZero, node, nv))
\* C19: right after KCL assembly every row holds, for every resistor,
\* capacitor and inductor, -(Vn1-Vn2)*Y if its node is n1 plus +(Vn1-Vn2)*Y
\* if its node is n2, with Y = 1/R, s*C, 1/(s*L) and no term for the
\* voltage of ground; no row is the row of ground, and the two shares of a
\* component between two nodes other than ground sum to zero.
C19_PassiveStamps ==
  AfterKCL =>
    /\ \A r \in DOMAIN equations :
         /\ NonGround[r] # 0
         /\ equations[r] = Expr(RowByClaim(components, Len(components), NonGround[r], nodeVars))
    /\ \A i \in OfKind(components, PassiveKinds) :
         (components[i].n1 # 0 /\ components[i].n2 # 0) =>
           PAdd(Stamp(components[i], PZero, components[i].n1, nodeVars),
                Stamp(components[i], PZero, components[i].n2, nodeVars)) = PZero
\* C19 happens: KCL assembly stamped a capacitor between two nodes other
\* than ground and an inductor or resistor to ground
C19_Witness ==
  /\ AfterKCL
  /\ \E i \in OfKind(components, {"c"}), j \in OfKind(components, {"l", "r"}) :
       /\ components[i].n1 # 0 /\ components[i].n2 # 0
       /\ components[i].n1 # components[i].n2
       /\ components[j].n1 = 0 /\ components[j].n2 # 0
  /\ Len(equations) = 2

\* The symbol the claim has a source or probe put into the rows: the
\* branch current of a voltage source, the defining symbol of a current
\* source or current probe
RowSymbol(cm) == IF cm.k \in {"vs", "cvs"} THEN cm.isy ELSE cm.sy
\* What the claim has the source or probe cm add to the row of the node
BranchShare(cm, node) ==
  IF cm.k = "vm" THEN PZero
  ELSE PAdd(IF cm.n1 = node THEN PSym(RowSymbol(cm)) ELSE PZero,
            IF cm.n2 = node THEN PNeg(PSym(RowSymbol(cm))) ELSE PZero)
RECURSIVE RowBySources(_, _, _, _)
\* The row of the node with the shares of the sources and probes 1..i as
\* the claim states them and the stamps of the passive components
RowBySources(comps, i, node, nv) ==
  IF i = 0 THEN PZero
  ELSE PAdd(RowBySources(comps, i - 1, node, nv),
            IF comps[i].k \in PassiveKinds THEN Stamp(comps[i], PZero, node, nv)
            ELSE BranchShare(comps[i], node))
\* C20: right after KCL assembly every row holds, for every independent or
\* controlled voltage source, its branch-current symbol with + if the node
\* is node1 and with - if it is node2, the same with the defining symbol
\* for every current source and current probe, and nothing for a voltage
\* probe, whose symbol is in no row.
C20_SourceStamps ==
  AfterKCL =>
    \A r \in DOMAIN equations :
      /\ equations[r] = Expr(RowBySources(components, Len(components), NonGround[r], nodeVars))
      /\ \A i \in OfKind(components, {"vm"}) :
           components[i].sy \notin EqSymbols(equations[r])
\* C20 happens: KCL assembly stamped a controlled voltage source between
\* two nodes other than ground, whose controller is a voltage probe
C20_Witness ==
  /\ AfterKCL
  /\ Len(equations) = 2
  /\ \E i \in OfKind(components, {"cvs"}) :
       /\ components[i].n1 # 0 /\ components[i].n2 # 0
       /\ components[i].n1 # components[i].n2
       /\ components[i].ctr.k = "vm"
       /\ components[i].isy \in EqSymbols(equations[1]) \cap EqSymbols(equations[2])

\* The indices of the components of comps of the kinds ks, in list order
IndicesOf(comps, ks) ==
  SelectSeq([i \in 1 .. Len(comps) |-> i], LAMBDA i : comps[i].k \in ks)
VoltageKinds == { "vs", "cvs" }
BranchCurrents(comps) == { comps[i].isy : i \in OfKind(comps, VoltageKinds) }
\* The equality sourceSymbol = Vnode1 - Vnode2, with 0 for ground
SourceEquality(cm, nv) ==
  [t |-> "Eq", s |-> << PSym(cm.sy), PSub(VoltageAt(nv, cm.n1), VoltageAt(nv, cm.n2)) >>]
\* The equations eqs2 are eqs followed by the equalities of the voltage
\* sources of comps, one each, in list order
OneEqualityEach(eqs, eqs2, comps, nv) ==
  /\ Len(eqs2) = Len(eqs) + Len(IndicesOf(comps, VoltageKinds))
  /\ \A k \in DOMAIN IndicesOf(comps, VoltageKinds) :
       eqs2[Len(eqs) + k] = SourceEquality(comps[IndicesOf(comps, VoltageKinds)[k]], nv)
ProbeNode(cm) == IF cm.n1 = 0 THEN cm.n2 ELSE cm.n1
ProbeGrounded(cm) == cm.n1 = 0 \/ cm.n2 = 0
ProbeValue(cm, m) == IF ProbeGrounded(cm) THEN PZero ELSE m[cm.n2]
RECURSIVE NodeMapAfter(_, _, _)
\* The node-variable map after the first k current probes of comps
NodeMapAfter(comps, nv, k) ==
  IF k = 0 THEN nv
  ELSE LET m == NodeMapAfter(comps, nv, k - 1)
           cm == comps[IndicesOf(comps, {"im"})[k]]
       IN Put(m, ProbeNode(cm), ProbeValue(cm, m))
\* The k-th current probe cm met the node map m, substituted as the log
\* entry e says and removed the symbol gone, leaving eqs and unk
ProbeEliminated(cm, m, e, gone, eqs, unk) ==
  /\ cm.sy \in unk
  /\ e.old = m[ProbeNode(cm)]
  /\ e.new = ProbeValue(cm, m)
  /\ e.n = Len(eqs)
  /\ e.old = PSym(gone)
  /\ ProbeGrounded(cm) \/ e.old # m[cm.n2]
  /\ gone \notin unk
  /\ \A j \in DOMAIN eqs : gone \notin EqSymbols(eqs[j])
\* C22: the current-probe pass adds every probe symbol to the unknowns and
\* eliminates exactly one node voltage per probe: with an endpoint on
\* ground the other endpoint's voltage symbol is replaced by 0 in all
\* equations and removed from the unknowns, otherwise node1's symbol is
\* replaced by node2's in all equations and node1's symbol, never node2's,
\* is removed.
C22_CurrentProbeEliminates ==
  [][(pc = "processIM" /\ pc' = "processVM") =>
       /\ Len(subsLog') = Len(subsLog) + Len(IndicesOf(components, {"im"}))
       /\ Len(elim') = Len(elim) + Len(IndicesOf(components, {"im"}))
       /\ Len(equations') = Len(equations)
       /\ \A k \in DOMAIN IndicesOf(components, {"im"}) :
            ProbeEliminated(components[IndicesOf(components, {"im"})[k]],
                            NodeMapAfter(components, nodeVars, k - 1),
                            subsLog'[Len(subsLog) + k], elim'[Len(elim) + k],
                            equations', unknowns')]_vars

\* One voltage probe cm as section 4.4 of the specification states it, on
\* the equations, unknowns and removals w with the node-variable map nv;
\* minus tells whether the equality appended in place of a removal
\* relates the probe to the node voltage with a minus sign
ProbeReads(w, cm, nv, minus) ==
  LET unk == w.unk \cup {cm.sy}
      v == nv[IF cm.n1 = 0 THEN cm.n2 ELSE cm.n1]
      by == IF cm.n1 = 0 THEN PNeg(PSym(cm.sy)) ELSE PSym(cm.sy)
  IN IF cm.n1 # 0 /\ cm.n2 # 0
     THEN [eqs |-> Append(w.eqs, Eq(PSym(cm.sy), PSub(nv[cm.n1], nv[cm.n2]))),
           unk |-> unk, el |-> w.el]
     ELSE IF v # PZero /\ SymOf(v) \in unk
     THEN [eqs |-> substEqs(w.eqs, v, by), unk |-> unk \ {SymOf(v)},
           el |-> Append(w.el, SymOf(v))]
     ELSE [eqs |-> Append(substEqs(w.eqs, v, by),
                          Eq(PSym(cm.sy), IF minus THEN PNeg(v) ELSE v)),
           unk |-> unk, el |-> w.el]
RECURSIVE ProbesRead(_, _, _, _, _)
\* The first k voltage probes of comps, in list order
ProbesRead(comps, k, w, nv, minus) ==
  IF k = 0 THEN w
  ELSE ProbeReads(ProbesRead(comps, k - 1, w, nv, minus),
                  comps[IndicesOf(comps, {"vm"})[k]], nv, minus[k])
\* C23: the voltage-probe pass adds every probe P to the unknowns; with
\* node1 on ground it replaces node2's voltage symbol by -P in all
\* equations, with node2 on ground node1's symbol by +P, and removes the
\* symbol from the unknowns, or, when the symbol is no unknown any more,
\* appends an equality relating P to the node-voltage symbol; with neither
\* endpoint on ground it appends P = Vnode1 - Vnode2 and eliminates nothing.
C23_VoltageProbePass ==
  [][(pc = "processVM" /\ pc' = "processCtr") =>
       /\ nodeVars' = nodeVars
       /\ \E minus \in [DOMAIN IndicesOf(components, {"vm"}) -> BOOLEAN] :
            [eqs |-> equations', unk |-> unknowns', el |-> elim'] =
              ProbesRead(components, Len(IndicesOf(components, {"vm"})),
                         [eqs |-> equations, unk |-> unknowns, el |-> elim],
                         nodeVars, minus)]_vars
\* C23 happens: two voltage probes read the same node against ground, the
\* first removed the node voltage and the second appended an equality
C23_Witness ==
  /\ pc = "processCtr"
  /\ \E i, j \in OfKind(components, {"vm"}) :
       /\ i < j
       /\ components[i].n2 = 0 /\ components[j].n1 = 0
       /\ components[i].n1 = components[j].n2
       /\ elim = << SymOf(nodeVars[components[i].n1]) >>
       /\ \E r \in DOMAIN equations : equations[r].t = "Eq"
       /\ {components[i].sy, components[j].sy} \subseteq unknowns

RECURSIVE WithValues(_, _, _)
\* The expression p with the whole number of every symbol of todo written
\* in its place
WithValues(p, dic, todo) ==
  IF todo = {} THEN p
  ELSE LET x == CHOOSE x \in todo : TRUE
       IN WithValues(PSubsSym(p, x, PTerm(dic[x][1], MOne)), dic, todo \ {x})
\* The quotient part is the quotient q with the values of dic, all of them
\* whole numbers, in the place of their symbols
IsParticular(part, q, dic) ==
  /\ \A x \in DOMAIN dic : dic[x][2] = 1
  /\ (PSymbols(part[1]) \cup PSymbols(part[2])) \cap DOMAIN dic = {}
  /\ RatEq(part, << WithValues(q[1], dic, DOMAIN dic), WithValues(q[2], dic, DOMAIN dic) >>)
\* C24: when solve() has returned, what it returned is the mapping whose
\* keys are exactly the registered names of the symbols the engine gave a
\* solution for, the mapping subs() returns has the same keys and holds,
\* for each, the symbolic expression with every valued component symbol
\* replaced by its value, and both are empty when the engine's result is
\* empty.
C24_NamedAndParticular ==
  /\ SolveReturned =>
       /\ result.ret = solution
       /\ DOMAIN sSolution[1] \subseteq DOMAIN name
       /\ DOMAIN solution[1] = { name[sy] : sy \in DOMAIN sSolution[1] }
       /\ \A sy \in DOMAIN sSolution[1] : solution[1][name[sy]] = sSolution[1][sy]
       /\ DOMAIN particular[1] = DOMAIN solution[1]
       /\ \A key \in DOMAIN solution[1] :
            IsParticular(particular[1][key], solution[1][key], subsDic)
       /\ DOMAIN sSolution[1] = {} =>
            (solution[1] = EmptyDict /\ particular[1] = EmptyDict)
  /\ (pc = "idle" /\ result.op = "subs" /\ result.exc = "none") => result.ret = particular
\* C24 happens: solve() returned a solution in which a valued resistor
\* occurs, and the value has changed the expression subs() returns
C24_Witness ==
  /\ SolveReturned
  /\ \E key \in DOMAIN solution[1] :
       /\ (PSymbols(solution[1][key][1]) \cup PSymbols(solution[1][key][2]))
            \cap DOMAIN subsDic # {}
       /\ particular[1][key] # solution[1][key]

\* The step is a call of addCVS or addCIS that raised the circuit exception
ControlledRejected(a, b, res) ==
  AddStep(a, b, res) /\ res.op \in {"addCVS", "addCIS"} /\ res.exc = "circuitEx"
\* The step is the end of a solve() that returned
SolveReturns(a, b, res) == a # "idle" /\ b = "idle" /\ res.op = "solve" /\ res.exc = "none"
\* C25: a call of addCVS or addCIS that fails on its controller leaves the
\* component list, the two symbol tables, the probe dictionary and the
\* Substitution Map (and everything else of the circuit) as they were; and
\* what a solve() that returns has computed is what the component list
\* alone determines, whatever calls failed before it.
C25_FailedAddChangesNothing ==
  [][/\ ControlledRejected(pc, pc', result') =>
          /\ UNCHANGED << components, name, symbol, meas, subsDic >>
          /\ UNCHANGED solVars
          /\ UNCHANGED passVars
     /\ SolveReturns(pc, pc', result') =>
          /\ equations' = Reduced(components').eqs
          /\ unknowns' = Reduced(components').unk
          /\ sSolution'[1] = sympySolve(equations', unknowns')]_vars
\* C25 happens: addCVS was rejected on a circuit that has components and
\* the results of an earlier solve()
C25_Witness ==
  /\ pc = "idle"
  /\ result.op = "addCVS" /\ result.exc = "circuitEx"
  /\ ~ControllerDefined(result.cont)
  /\ Len(components) > 0
  /\ sSolution # None

\* The reduction passes have all run: the solver is next
PipelineDone == pc = "solveEquations"
\* The symbols of all equations of the list
AllEqSymbols(eqs) == UNION { EqSymbols(eqs[j]) : j \in DOMAIN eqs }
\* The symbol x was replaced by a voltage-probe symbol or its negative
ReplacedByProbe(x) ==
  \E j \in DOMAIN subsLog, i \in OfKind(components, {"vm"}) :
    /\ subsLog[j].old = PSym(x)
    /\ subsLog[j].new \in { PSym(components[i].sy), PNeg(PSym(components[i].sy)) }
\* C26: when the reduction passes have all run, every node-voltage symbol
\* that occurs in an equation is an unknown, the node-variable map takes
\* every non-ground node to 0, to an unknown or to a symbol that a probe
\* symbol has replaced, and no node voltage removed from the unknowns
\* occurs in an equation.
C26_NoFreeNodeVoltage ==
  PipelineDone =>
    /\ (NodeSymbols \cap AllEqSymbols(equations)) \subseteq unknowns
    /\ \A node \in DOMAIN nodeVars :
         \/ nodeVars[node] = PZero
         \/ SymOf(nodeVars[node]) \in unknowns
         \/ ReplacedByProbe(SymOf(nodeVars[node]))
    /\ \A j \in DOMAIN elim : elim[j] \notin AllEqSymbols(equations)

\* For each voltage probe of comps, in list order: its node1 is ground
GroundFirst(comps) ==
  [k \in DOMAIN IndicesOf(comps, {"vm"}) |-> comps[IndicesOf(comps, {"vm"})[k]].n1 = 0]
\* C27: a voltage probe P whose node1 is ground relates P to node2's
\* voltage with the same sign whether the node voltage is eliminated (it is
\* replaced by -P) or the equality is appended in its place: the appended
\* equality states P = -Vnode2 (and P = +Vnode1 for a probe whose node2 is
\* ground).
C27_FallbackSameSign ==
  [][(pc = "processVM" /\ pc' = "processCtr") =>
       [eqs |-> equations', unk |-> unknowns', el |-> elim'] =
         ProbesRead(components, Len(IndicesOf(components, {"vm"})),
                    [eqs |-> equations, unk |-> unknowns, el |-> elim],
                    nodeVars, GroundFirst(components))]_vars

\* The last call was a solve() and it has ended, returning or raising
SolveEnded == pc = "idle" /\ result.op = "solve"
\* C28: a solve() raises nothing but the circuit exception, and on a
\* circuit that has components and node 0 it runs all its passes and
\* returns: no lookup in the node-variable map and no removal from the
\* unknown set fails.
C28_OnlyCircuitExceptions ==
  SolveEnded =>
    /\ result.exc \in {"none", "circuitEx"}
    /\ (Len(components) > 0 /\ 0 \in EndPoints(components)) => result.exc = "none"

\* The names under which solve() reports the unknowns of the circuit: one
\* per non-ground node, per voltage source and per probe
NodeNames == { NodeName(node) : node \in NonZero(nodeList) }
CurrentNames(comps) == { "i" \o comps[i].n : i \in OfKind(comps, VoltageKinds) }
\* C29: where the symbolic solve is invoked, on a circuit whose components
\* have distinct names, every unknown has an entry in the symbol-to-name
\* table under its own name, and the unknowns of different nodes, sources
\* and probes have different names: no two nodes share a voltage name and
\* no node-voltage, probe or branch-current name coincides with another.
C29_UnknownsNamedApart ==
  (PipelineDone /\ UniqueNames(components)) =>
    /\ \A sy \in unknowns : sy \in DOMAIN name /\ Symbol(name[sy]) = sy
    /\ Cardinality(NodeNames) = Cardinality(NonZero(nodeList))
    /\ Cardinality(NodeNames \cup CurrentNames(components) \cup ProbeNames(components))
         = Cardinality(NodeNames) + Cardinality(OfKind(components, VoltageKinds))
             + Cardinality(OfKind(components, ProbeKinds))

\* C30: when the reduction passes have all run on a circuit whose
\* components have distinct names, the system handed to the solver is
\* square: the equation list has as many entries as the unknown set has
\* symbols.
C30_SquareSystem ==
  (PipelineDone /\ UniqueNames(components)) => Len(equations) = Cardinality(unknowns)

====
